---- MODULE Spec2Model ----
(***************************************************************************)
(* Model of the hybrid retrieval-and-decision pipeline of the FAQ          *)
(* assistant: VariantGenerationService (variant_service.py),               *)
(* RetrievalService (retrieval_service.py) and QuestionAnsweringService    *)
(* (qa_service.py).                                                        *)
(*                                                                         *)
(* Conventions.  A Python str is a sequence of one-character strings.     *)
(* A float similarity is an integer number of 1/10000ths (0.75 is 7500,   *)
(* 0.7499 is 7499).  Optional[X] is a sequence of zero or one X.  A call   *)
(* that may raise returns a record with an "ok" field.                     *)
(***************************************************************************)
EXTENDS Integers, Sequences, FiniteSets, TLC

(***************************************************************************)
(* Bounds of the model.                                                    *)
(***************************************************************************)
MaxAliases == 1
MaxQueries == 2
MaxItems == 2

(***************************************************************************)
(* Program constants.                                                      *)
(***************************************************************************)
Unit == 10000
ConfidenceThreshold == 7500
ContextMinSimilarity == 5000
ContextLimit == 3
TopK == 5
MinVariants == 1
MaxVariants == 10
SimilarityMin == 0
SimilarityMax == 10000

(***************************************************************************)
(* Generic helpers on sequences.                                           *)
(***************************************************************************)
Min2(a, b) == IF a <= b THEN a ELSE b

Max2(a, b) == IF a >= b THEN a ELSE b

Take(s, k) == SubSeq(s, 1, Min2(k, Len(s)))

Range(s) == {s[i] : i \in 1..Len(s)}

RECURSIVE Flatten(_)
Flatten(ss) == IF ss = <<>> THEN <<>> ELSE Head(ss) \o Flatten(Tail(ss))

SeqsUpTo(S, n) == UNION {[1..k -> S] : k \in 0..n}

(***************************************************************************)
(* Python str operations used by the services.                             *)
(***************************************************************************)
Whitespace == {" ", "\t", "\n"}

Quotes == {"\"", "'"}

LowerChar(c) ==
    CASE c = "A" -> "a"
      [] c = "B" -> "b"
      [] c = "C" -> "c"
      [] c = "E" -> "e"
      [] c = "G" -> "g"
      [] c = "I" -> "i"
      [] c = "L" -> "l"
      [] c = "N" -> "n"
      [] c = "R" -> "r"
      [] c = "T" -> "t"
      [] OTHER -> c

\* str.lower()
Lower(s) == [i \in 1..Len(s) |-> LowerChar(s[i])]

\* needle in haystack
Contains(haystack, needle) ==
    \E i \in 0..(Len(haystack) - Len(needle)) :
        SubSeq(haystack, i + 1, i + Len(needle)) = needle

RECURSIVE LStrip(_, _)
LStrip(s, chars) ==
    IF s # <<>> /\ Head(s) \in chars THEN LStrip(Tail(s), chars) ELSE s

RECURSIVE RStrip(_, _)
RStrip(s, chars) ==
    IF s # <<>> /\ s[Len(s)] \in chars
    THEN RStrip(SubSeq(s, 1, Len(s) - 1), chars)
    ELSE s

\* str.strip(chars)
Strip(s, chars) == RStrip(LStrip(s, chars), chars)

\* re.sub(r'\s+', ' ', s): every maximal run of whitespace becomes one space
RECURSIVE CollapseWhitespace(_)
CollapseWhitespace(s) ==
    IF s = <<>> THEN <<>>
    ELSE IF Head(s) \in Whitespace
         THEN <<" ">> \o CollapseWhitespace(LStrip(s, Whitespace))
         ELSE <<Head(s)>> \o CollapseWhitespace(Tail(s))

S_general == <<"g", "e", "n", "e", "r", "a", "l">>

(***************************************************************************)
(* VariantGenerationService (variant_service.py).                          *)
(*                                                                         *)
(* The text returned by the model chain is described by its shape for     *)
(* json.loads and for the salvage pattern \[[\s\S]*?] :                    *)
(*   object        valid JSON object, "paraphrases": [items]               *)
(*   object_string valid JSON object, "paraphrases": "<one string item>"   *)
(*   object_scalar valid JSON object, "paraphrases": a number or null      *)
(*   object_nokey  valid JSON object without the key                       *)
(*   array         valid JSON bare array [items]                           *)
(*   scalar        valid JSON number, null or string                       *)
(*   text          not JSON, holds no bracket pair                         *)
(*   text_array    not JSON, its first bracket pair encloses [items]       *)
(*   text_bad      not JSON, its first bracket pair is not a JSON array    *)
(* An item is a JSON string, number or null.                               *)
(***************************************************************************)
StrItem(chars) == [t |-> "str", v |-> chars]

NumItem(digits) == [t |-> "num", v |-> digits]

NullItem == [t |-> "null", v |-> <<>>]

\* str(x) of a decoded JSON item
PyStr(x) ==
    CASE x.t = "str" -> x.v
      [] x.t = "num" -> x.v
      [] x.t = "null" -> <<"N", "o", "n", "e">>

Raised == [ok |-> FALSE, val |-> <<>>]

Returned(v) == [ok |-> TRUE, val |-> v]

RECURSIVE CleanLoop(_, _, _, _)
CleanLoop(rest, seen, cleaned, expected_count) ==
    IF rest = <<>> THEN cleaned
    ELSE LET variant == Strip(Strip(CollapseWhitespace(Head(rest)), Whitespace), Quotes)
         IN  IF variant = <<>> \/ Lower(variant) \in seen
             THEN CleanLoop(Tail(rest), seen, cleaned, expected_count)
             ELSE IF Len(cleaned) + 1 >= expected_count
                  THEN Append(cleaned, variant)
                  ELSE CleanLoop(Tail(rest), seen \cup {Lower(variant)},
                                 Append(cleaned, variant), expected_count)

clean_variants(variants, expected_count) ==
    CleanLoop(variants, {}, <<>>, expected_count)

\* json.loads(response)["paraphrases"], each element through str():
\* Returned(list), or Raised for an exception other than JSONDecodeError
\* (KeyError, TypeError), or the salvage path for a JSONDecodeError.
SalvageArray(response) ==
    IF response.shape = "text_array"
       /\ \A i \in 1..Len(response.items) : ~Contains(response.items[i].v, <<"]">>)
    THEN [i \in 1..Len(response.items) |-> PyStr(response.items[i])]
    ELSE <<>>

ExtractVariants(response) ==
    CASE response.shape = "object" ->
            Returned([i \in 1..Len(response.items) |-> PyStr(response.items[i])])
      [] response.shape = "object_string" ->
            Returned([i \in 1..Len(response.items[1].v) |-> <<response.items[1].v[i]>>])
      [] response.shape \in {"object_scalar", "object_nokey", "array", "scalar"} ->
            Raised
      [] response.shape \in {"text", "text_array", "text_bad"} ->
            Returned(SalvageArray(response))

parse_response(response, expected_count) ==
    LET extracted == ExtractVariants(response)
    IN  IF extracted.ok
        THEN Returned(clean_variants(extracted.val, expected_count))
        ELSE Raised

ClampCount(n) == Max2(MinVariants, Min2(n, MaxVariants))

ClampTemperature(t) == Max2(0, Min2(t, Unit))

\* Faulty variant of IsBlank: only the empty text is tested, not text.strip()
IsBlankEmptyOnly(text) == text = <<>>

\* not text or not text.strip()
IsBlank(text) == Strip(text, Whitespace) = <<>>

\* How the model call went for generate_variants: "call" when chain.invoke
\* raised, "shape" when _parse_response raised (KeyError, TypeError),
\* "salvage" when the text was not JSON, "none" otherwise
VariantFailure(outcome) ==
    CASE ~outcome.ok -> "call"
      [] outcome.ok /\ ~ExtractVariants(outcome.val).ok -> "shape"
      [] outcome.ok /\ outcome.val.shape \in {"text", "text_array", "text_bad"} -> "salvage"
      [] OTHER -> "none"

\* Faulty variant of GuardedVariants: no except clause around the call and
\* the parse
GuardedVariantsUncaught(outcome, n) ==
    IF ~outcome.ok THEN Raised ELSE parse_response(outcome.val, n)

\* The try block of lines 46-63; outcome is what self.chain.invoke does,
\* Raised or Returned(response)
GuardedVariants(outcome, n) ==
    IF ~outcome.ok THEN Returned(<<>>)
    ELSE LET parsed == parse_response(outcome.val, n)
         IN  IF parsed.ok THEN parsed ELSE Returned(<<>>)

\* The result tells the returned list (or that an exception left the
\* method), whether the model was called and the value left in
\* self.llm.temperature.
generate_variants(text, n, temperature, outcome, old_temperature) ==
    IF IsBlank(text)
    THEN [result |-> Returned(<<>>), called |-> FALSE, failure |-> "none",
          llm_temperature |-> old_temperature]
    ELSE [result |-> GuardedVariants(outcome, ClampCount(n)),
          called |-> TRUE, failure |-> VariantFailure(outcome),
          llm_temperature |-> ClampTemperature(temperature)]

(***************************************************************************)
(* The vector store (tables faqs and faq_variants) and the embedding       *)
(* space.  Vectors are opaque; the store's cosine distance (pgvector's    *)
(* <=> operator) is a table over them, in 1/10000ths, within [0, 2].       *)
(***************************************************************************)
QueryVectors == {1, 2, 3}

StoredVectors == {1, 2, 3}

CosineDistance(q, s) ==
    CASE q = 1 /\ s = 1 -> 2501
      [] q = 1 /\ s = 2 -> 5000
      [] q = 1 /\ s = 3 -> 0
      [] q = 2 /\ s = 1 -> 1000
      [] q = 2 /\ s = 2 -> 2500
      [] q = 2 /\ s = 3 -> 12500
      [] q = 3 /\ s = 1 -> 5001
      [] q = 3 /\ s = 2 -> 2500
      [] q = 3 /\ s = 3 -> 5000

\* 1 - (embedding <=> query) of the SELECT lists
Similarity(distance) == Unit - distance

\* Stored texts are opaque: a kind and the row they belong to
Text(kind, id) == [kind |-> kind, id |-> id]

FaqQuestion(id) == Text("faq_question", id)

FaqAnswer(id) == Text("faq_answer", id)

VariantText(k) == Text("variant", k)

\* A store: faqs maps the ids of the stored entries to their question
\* embedding; variants is the faq_variants table, each row referencing a
\* stored entry (the foreign key of the schema).
FaqIdSets == {{}, {1}, {1, 2}}

Stores ==
    {[faqs |-> f, variants |-> v] :
        <<f, v>> \in UNION {[ids -> StoredVectors] \X
                              SeqsUpTo([faq_id : ids, vec : StoredVectors], MaxAliases)
                            : ids \in FaqIdSets}}

\* ord(c) of the characters of the texts that get embedded
CharCode(c) ==
    CASE c = " " -> 32
      [] c = "A" -> 65
      [] c = "N" -> 78
      [] c = "a" -> 97
      [] c = "e" -> 101
      [] c = "n" -> 110
      [] c = "o" -> 111
      [] c = "r" -> 114

RECURSIVE CodeSum(_)
CodeSum(text) ==
    IF text = <<>> THEN 0
    ELSE IF Len(text) = 1 THEN CharCode(text[1])
    ELSE CodeSum(SubSeq(text, 1, Len(text) \div 2))
         + CodeSum(SubSeq(text, (Len(text) \div 2) + 1, Len(text)))

\* The embedding provider is an opaque function of the text: the same text
\* always gets the same vector
Embed(text) == 1 + (CodeSum(text) % 3)

\* The rows of each SELECT's FROM clause with their distance to embedding
FaqRows(st, embedding) ==
    {[faq_id |-> id, variant |-> 0,
      distance |-> CosineDistance(embedding, st.faqs[id])] : id \in DOMAIN st.faqs}

VariantRows(st, embedding) ==
    {[faq_id |-> st.variants[k].faq_id, variant |-> k,
      distance |-> CosineDistance(embedding, st.variants[k].vec)]
        : k \in 1..Len(st.variants)}

\* ORDER BY distance: every ordering of the rows by ascending distance
\* (the order of rows at equal distance is the store's choice)
RECURSIVE OrderedBy(_)
OrderedBy(rows) ==
    IF rows = {} THEN {<<>>}
    ELSE UNION {{<<r>> \o rest : rest \in OrderedBy(rows \ {r})}
                : r \in {x \in rows : \A y \in rows : x.distance <= y.distance}}

\* ORDER BY ... LIMIT top_k, answered exactly (the approximation of the
\* ivfflat indexes is not modelled)
QueryResults(rows, top_k) == {Take(ordered, top_k) : ordered \in OrderedBy(rows)}

\* The outcomes of db.execute_query for each sub-search: a result of the
\* query, or an exception
FaqQueryOutcomes(st, embedding, top_k) ==
    {Raised} \cup {Returned(r) : r \in QueryResults(FaqRows(st, embedding), top_k)}

VariantQueryOutcomes(st, embedding, top_k) ==
    {Raised} \cup {Returned(r) : r \in QueryResults(VariantRows(st, embedding), top_k)}

(***************************************************************************)
(* RetrievalService (retrieval_service.py).                                *)
(***************************************************************************)
FaqMatch(row) ==
    [faq_id |-> row.faq_id, question |-> FaqQuestion(row.faq_id),
     answer |-> FaqAnswer(row.faq_id), similarity |-> Similarity(row.distance),
     source |-> "faq", matched_text |-> <<>>]

VariantMatch(row) ==
    [faq_id |-> row.faq_id, question |-> FaqQuestion(row.faq_id),
     answer |-> FaqAnswer(row.faq_id), similarity |-> Similarity(row.distance),
     source |-> "variant", matched_text |-> <<VariantText(row.variant)>>]

\* Faulty variant of search_faqs_table: no except clause
search_faqs_table_uncaught(outcome) ==
    IF outcome.ok
    THEN Returned([i \in 1..Len(outcome.val) |-> FaqMatch(outcome.val[i])])
    ELSE Raised

\* outcome: what db.execute_query did; the except clause turns an
\* exception into []
search_faqs_table(outcome) ==
    IF outcome.ok
    THEN Returned([i \in 1..Len(outcome.val) |-> FaqMatch(outcome.val[i])])
    ELSE Returned(<<>>)

search_variants_table(outcome) ==
    IF outcome.ok
    THEN Returned([i \in 1..Len(outcome.val) |-> VariantMatch(outcome.val[i])])
    ELSE Returned(<<>>)

\* Faulty variant of Replaces: the first candidate of a faq_id is kept
ReplacesNever(match, kept) == FALSE

\* Faulty variant of Replaces: a later candidate of equal similarity wins
ReplacesOrEqual(match, kept) == match.similarity >= kept.similarity

\* match['similarity'] > faq_map[faq_id]['similarity']
Replaces(match, kept) == match.similarity > kept.similarity

\* one iteration of the loop over matches; faq_map is the dict's values in
\* insertion order of their keys
DedupStep(faq_map, match) ==
    IF \E i \in 1..Len(faq_map) : faq_map[i].faq_id = match.faq_id
    THEN [i \in 1..Len(faq_map) |->
            IF faq_map[i].faq_id = match.faq_id /\ Replaces(match, faq_map[i])
            THEN match ELSE faq_map[i]]
    ELSE Append(faq_map, match)

RECURSIVE DedupLoop(_, _)
DedupLoop(faq_map, matches) ==
    IF matches = <<>> THEN faq_map
    ELSE DedupLoop(DedupStep(faq_map, Head(matches)), Tail(matches))

deduplicate_matches(matches) == DedupLoop(<<>>, matches)

\* Faulty variant of InsertDescending: no sort, the dict order is kept
InsertLast(sorted, m) == Append(sorted, m)

\* Faulty variant of InsertDescending: reverse=True is missing
InsertAscending(sorted, m) ==
    LET n == Cardinality({i \in 1..Len(sorted) : sorted[i].similarity <= m.similarity})
    IN  SubSeq(sorted, 1, n) \o <<m>> \o SubSeq(sorted, n + 1, Len(sorted))

\* list.sort(key=similarity, reverse=True): stable, descending
InsertDescending(sorted, m) ==
    LET n == Cardinality({i \in 1..Len(sorted) : sorted[i].similarity >= m.similarity})
    IN  SubSeq(sorted, 1, n) \o <<m>> \o SubSeq(sorted, n + 1, Len(sorted))

RECURSIVE SortDescending(_)
SortDescending(matches) ==
    IF matches = <<>> THEN <<>>
    ELSE InsertDescending(SortDescending(SubSeq(matches, 1, Len(matches) - 1)),
                          matches[Len(matches)])

\* Faulty variant of Truncate: the slice is forgotten
TruncateNothing(ms, top_k) == ms

\* deduplicated[:top_k]
Truncate(ms, top_k) == Take(ms, top_k)

\* outcomes[i] = [faq |-> ..., variant |-> ...]: what the two queries issued
\* for query embedding i did.  The loop of lines 33-38: the sub-search
\* results in order, faqs before faq_variants for each embedding
SubSearches(outcomes) ==
    Flatten([i \in 1..Len(outcomes) |->
                <<search_faqs_table(outcomes[i].faq),
                  search_variants_table(outcomes[i].variant)>>])

\* all_matches.extend(...) over the sub-searches
AllMatches(subs) == Flatten([i \in 1..Len(subs) |-> subs[i].val])

\* The locals of the call and what it returns; an exception of a
\* sub-search would leave the method, which has no handler of its own
search_similar_faqs(outcomes, top_k) ==
    LET subs == SubSearches(outcomes)
    IN  IF \E i \in 1..Len(subs) : ~subs[i].ok
        THEN [raised |-> TRUE, all_matches |-> <<>>, deduplicated |-> <<>>,
              result |-> <<>>]
        ELSE LET all_matches == AllMatches(subs)
                 deduplicated == deduplicate_matches(all_matches)
             IN  [raised |-> FALSE, all_matches |-> all_matches,
                  deduplicated |-> deduplicated,
                  result |-> Truncate(SortDescending(deduplicated), top_k)]

\* How many of the sub-searches failed: "none", "some" or "all"
SubSearchFailures(outcomes) ==
    LET failed == {i \in 1..Len(outcomes) : ~outcomes[i].faq.ok}
        failedv == {i \in 1..Len(outcomes) : ~outcomes[i].variant.ok}
    IN  CASE failed = {} /\ failedv = {} -> "none"
          [] failed = DOMAIN outcomes /\ failedv = DOMAIN outcomes -> "all"
          [] OTHER -> "some"

\* The outcomes the store can give to the sub-searches of query_embeddings
RECURSIVE SearchOutcomes(_, _, _)
SearchOutcomes(st, query_embeddings, top_k) ==
    IF query_embeddings = <<>> THEN {<<>>}
    ELSE {<<[faq |-> f, variant |-> v]>> \o rest :
            f \in FaqQueryOutcomes(st, Head(query_embeddings), top_k),
            v \in VariantQueryOutcomes(st, Head(query_embeddings), top_k),
            rest \in SearchOutcomes(st, Tail(query_embeddings), top_k)}

(***************************************************************************)
(* QuestionAnsweringService (qa_service.py): the helpers of                *)
(* answer_question.                                                        *)
(***************************************************************************)
GeneralAnswer == Text("default_general_answer", 0)

ErrorAnswer == Text("error_apology", 0)

LlmFailureAnswer == Text("llm_failure_apology", 0)

GeneratedAnswer == Text("generated", 0)

\* Faulty variant of IsGeneral: the label is not lower-cased
IsGeneralCaseSensitive(question_category) == Contains(question_category, S_general)

\* "general" in question_category.lower()
IsGeneral(question_category) == Contains(Lower(question_category), S_general)

\* Faulty variant of BestMatch: the last candidate is taken
BestMatchLast(ms) == IF ms # <<>> THEN <<ms[Len(ms)]>> ELSE <<>>

\* matches[0] if matches else None
BestMatch(ms) == IF ms # <<>> THEN <<ms[1]>> ELSE <<>>

\* best_match['similarity'] if best_match else 0.0
Confidence(best_match) == IF best_match # <<>> THEN best_match[1].similarity ELSE 0

\* Faulty variant of UsesStored: a strict comparison with the threshold
UsesStoredStrict(conf, best, threshold) == conf > threshold /\ best # <<>>

\* confidence >= self.confidence_threshold and best_match
UsesStored(conf, best, threshold) == conf >= threshold /\ best # <<>>

\* [m for m in context_matches if m['similarity'] >= 0.5][:3]
RECURSIVE SelectSeq2(_)
SelectSeq2(ms) ==
    IF ms = <<>> THEN <<>>
    ELSE IF Head(ms).similarity >= ContextMinSimilarity
         THEN <<Head(ms)>> \o SelectSeq2(Tail(ms))
         ELSE SelectSeq2(Tail(ms))

\* Faulty variant of ContextFaqs: the slice [:3] is missing
ContextFaqsUnlimited(ms) == SelectSeq2(ms)

ContextFaqs(ms) == Take(SelectSeq2(ms), ContextLimit)

\* The chain _generate_llm_answer invokes, with its context
SynthesizerCall(ms) ==
    IF ContextFaqs(ms) # <<>>
    THEN [mode |-> "grounded", context |-> ContextFaqs(ms)]
    ELSE [mode |-> "ungrounded", context |-> <<>>]

\* outcome: what the chain did; _generate_llm_answer catches its exception
generate_llm_answer(outcome) ==
    IF outcome.ok THEN GeneratedAnswer ELSE LlmFailureAnswer

\* pydantic's Field(ge=0.0, le=1.0) on SimilarMatch.similarity and on
\* QuestionResponse.confidence
InUnitRange(x) == SimilarityMin <= x /\ x <= SimilarityMax

\* Faulty variant of ValidSimilarMatch: SimilarMatch.similarity carries no
\* range constraint
ValidSimilarMatchAlways(m) == TRUE

ValidSimilarMatch(m) == InUnitRange(m.similarity)

\* Faulty variant of ResponseValidates: the fields carry no range constraint
ResponseValidatesAlways(conf, ms) == TRUE

\* Whether the QuestionResponse of lines 126-134 can be constructed
ResponseValidates(conf, ms) ==
    /\ InUnitRange(conf)
    /\ \A i \in 1..Len(ms) : ValidSimilarMatch(ms[i])

QuestionResponse(ans, src, conf, matched, all, vars_opt) ==
    [answer |-> ans, source |-> src, confidence |-> conf, matched_faq |-> matched,
     all_matches |-> all, generated_variants |-> vars_opt,
     processing_time_ms |-> "measured"]

NoVariants == [some |-> FALSE, val |-> <<>>]

SomeVariants(v) == [some |-> TRUE, val |-> v]

GeneralResponse ==
    QuestionResponse(GeneralAnswer, "llm", Unit, <<>>, <<>>, NoVariants)

ErrorResponse ==
    QuestionResponse(ErrorAnswer, "error", 0, <<>>, <<>>, NoVariants)

(***************************************************************************)
(* Inputs of a request and outcomes of the external calls.                 *)
(***************************************************************************)
Questions == {<<"r">>, <<" ">>}

NumVariantsInputs == {0, 1, 2}

Requests ==
    {[question |-> q, generate_variants |-> TRUE, num_variants |-> n] :
        q \in Questions, n \in NumVariantsInputs}
    \cup {[question |-> q, generate_variants |-> FALSE, num_variants |-> 3] :
            q \in Questions}

RouterLabels ==
    {<<"I", "T">>, <<"C", "h", "a", "t">>,
     <<"G", "e", "n", "e", "r", "a", "l">>,
     <<"G", "E", "N", "E", "R", "A", "L", ".">>}

RouterOutcomes == {Raised} \cup {Returned(l) : l \in RouterLabels}

PipelineItems == {StrItem(<<"a">>), StrItem(<<" ", "A", " ">>), NullItem}

ItemLists == SeqsUpTo(PipelineItems, MaxItems)

ModelResponses ==
    {[shape |-> sh, items |-> its] :
        sh \in {"object", "array", "text_array"}, its \in ItemLists}
    \cup {[shape |-> "object_string", items |-> <<it>>] :
            it \in {x \in PipelineItems : x.t = "str"}}
    \cup {[shape |-> sh, items |-> <<>>] :
            sh \in {"object_scalar", "object_nokey", "scalar", "text", "text_bad"}}

VariantModelOutcomes == {Raised} \cup {Returned(r) : r \in ModelResponses}

SynthesizerOutcomes == {Raised, Returned(<<>>)}

\* [user_query] + query_variants, each through generate_embedding
QueryEmbeddings(user_query, query_variants) ==
    LET all_queries == <<user_query>> \o query_variants
    IN  [i \in 1..Len(all_queries) |-> Embed(all_queries[i])]

TopKs == {1, 2, 5}

(***************************************************************************)
(* State.                                                                  *)
(***************************************************************************)
VARIABLES
    store,            \* the tables faqs and faq_variants
    llm_temperature,  \* variant_service.llm.temperature
    req,              \* the arguments of answer_question
    pc,               \* the position of answer_question
    category,         \* question_category
    variants,         \* variants
    matches,          \* matches
    best_match,       \* best_match
    confidence,       \* confidence
    answer,           \* answer
    source,           \* source
    exc,              \* the stage whose exception reached the try block
    responses,        \* the responses returned to the caller
    calls,            \* external calls made by the request
    synth,            \* the synthesizer calls made
    absorbed,         \* the failures a component turned into a default
    srch,             \* a direct call of search_similar_faqs
    gen,              \* a direct call of generate_variants
    http,             \* the HTTP request at the endpoints of routes/faq.py
    environ,          \* os.environ's CONFIDENCE_THRESHOLD, if set
    confidence_threshold,  \* qa_service.confidence_threshold
    db,               \* db_manager: its pool and the operation in progress
    faqs_id_seq,      \* the sequence behind faqs.id (SERIAL)
    sql,              \* the last statement run on the tables and its outcome
    par               \* the requests served concurrently

vars == <<store, llm_temperature, req, pc, category, variants, matches, best_match,
          confidence, answer, source, exc, responses, calls, synth, absorbed, srch, gen, http, environ, confidence_threshold, db, faqs_id_seq, sql, par>>

locals == <<category, variants, matches, best_match, confidence, answer, source>>

NoCalls == [router |-> 0, variant_model |-> 0, embedding |-> 0, search |-> 0, synthesizer |-> 0]

NoneAbsorbed == [variant |-> "none", sub_search |-> "none", synthesizer |-> FALSE]

NoSearch == [phase |-> "none", query_embeddings |-> <<>>, top_k |-> 0,
             outcomes |-> <<>>, raised |-> FALSE, all_matches |-> <<>>,
             deduplicated |-> <<>>, result |-> <<>>]

NoGen == [phase |-> "none", text |-> <<>>, n |-> 0, temperature |-> 0,
          outcome |-> Raised, result |-> <<>>, called |-> FALSE]

NoHttp == [endpoint |-> "none", question |-> <<>>, generate_variants |-> FALSE,
           num_variants |-> 0, status |-> 0]

DefaultTemperature == 7000

SimilarityThresholdDefault == 7500

\* AppConfig.from_env (config.py, lines 64-68): the fields of config.app
AppConfigFromEnv(env) ==
    [similarity_threshold |-> IF env # <<>> THEN env[1] ELSE SimilarityThresholdDefault]

\* getattr(obj, name, default)
GetAttr(obj, name, default) == IF name \in DOMAIN obj THEN obj[name] ELSE default

\* QuestionAnsweringService.__init__, lines 37-39
InitConfidenceThreshold(env) ==
    GetAttr(AppConfigFromEnv(env), "confidence_threshold", ConfidenceThreshold)

\* db_manager before any call (database.py, lines 13-15, 106): no pool, no
\* operation in progress
NoDb == [pool |-> "none", minconn |-> 0, maxconn |-> 0, used |-> 0,
         phase |-> "idle", operation |-> "none", commit |-> FALSE,
         failed_at |-> "none", getconn |-> "none", external |-> "none",
         armed |-> FALSE, event |-> "none", finished |-> 0]

\* No statement has changed the tables yet
NoStatement == [statement |-> "none", faq_id |-> 0, ok |-> TRUE, cascaded |-> 0,
                count |-> 0]

\* No request is being served concurrently
NoPar == [requests |-> <<>>, worker |-> <<>>, llm_temperature |-> <<>>,
          writer |-> <<>>, used |-> <<>>]

InitLocals ==
    /\ category = <<>>
    /\ variants = <<>>
    /\ matches = <<>>
    /\ best_match = <<>>
    /\ confidence = 0
    /\ answer = Text("unset", 0)
    /\ source = "unset"
    /\ exc = "none"
    /\ responses = <<>>
    /\ calls = NoCalls
    /\ synth = <<>>
    /\ absorbed = NoneAbsorbed

\* A request enters answer_question
Init ==
    /\ store \in Stores
    /\ llm_temperature = DefaultTemperature
    /\ req \in Requests
    /\ pc = "Classify"
    /\ InitLocals
    /\ srch = NoSearch
    /\ gen = NoGen
    /\ http = NoHttp
    /\ environ = <<>>
    /\ confidence_threshold = InitConfidenceThreshold(environ)
    /\ db = NoDb
    /\ faqs_id_seq = 0
    /\ sql = NoStatement
    /\ par = NoPar

(***************************************************************************)
(* answer_question (qa_service.py, lines 70-150), one action per stage.    *)
(***************************************************************************)
Bump(field) == [calls EXCEPT ![field] = @ + 1]

\* Faulty variant of Throw: no handler, the exception leaves answer_question
ThrowUncaught(stage) ==
    /\ exc' = stage
    /\ pc' = "Raised"

\* An exception leaves the try block for the handler of line 139
Throw(stage) ==
    /\ exc' = stage
    /\ pc' = "Errored"

\* Lines 73-77: the router chain, then the test for "general"
Classify ==
    /\ pc = "Classify"
    /\ calls' = Bump("router")
    /\ \E outcome \in RouterOutcomes :
          IF outcome.ok
          THEN /\ category' = outcome.val
               /\ pc' = IF IsGeneral(outcome.val) THEN "ShortCircuitGeneral" ELSE "Variants"
               /\ exc' = exc
          ELSE /\ Throw("classifier")
               /\ category' = category
    /\ UNCHANGED <<store, llm_temperature, req, variants, matches, best_match,
                   confidence, answer, source, responses, synth, absorbed, srch, gen, http, environ, confidence_threshold, db, faqs_id_seq, sql, par>>

\* Faulty variant of ShortCircuitGeneral: the return of line 91 is missing
ShortCircuitFallsThrough ==
    /\ pc = "ShortCircuitGeneral"
    /\ responses' = Append(responses, GeneralResponse)
    /\ pc' = "Variants"
    /\ UNCHANGED <<store, llm_temperature, req, locals, exc, calls, synth, absorbed, srch, gen, http, environ, confidence_threshold, db, faqs_id_seq, sql, par>>

\* Lines 78-91
ShortCircuitGeneral ==
    /\ pc = "ShortCircuitGeneral"
    /\ responses' = Append(responses, GeneralResponse)
    /\ pc' = "Done"
    /\ UNCHANGED <<store, llm_temperature, req, locals, exc, calls, synth, absorbed, srch, gen, http, environ, confidence_threshold, db, faqs_id_seq, sql, par>>

\* Lines 93-101
Variants ==
    /\ pc = "Variants"
    /\ \/ /\ req.generate_variants
          /\ \E outcome \in VariantModelOutcomes :
                LET r == generate_variants(req.question, req.num_variants,
                                           DefaultTemperature, outcome, llm_temperature)
                IN  /\ llm_temperature' = r.llm_temperature
                    /\ calls' = IF r.called THEN Bump("variant_model") ELSE calls
                    /\ absorbed' = [absorbed EXCEPT !.variant = r.failure]
                    /\ IF r.result.ok
                       THEN /\ variants' = r.result.val
                            /\ pc' = "Retrieve"
                            /\ UNCHANGED exc
                       ELSE /\ Throw("variant_generation")
                            /\ UNCHANGED variants
       \/ /\ ~req.generate_variants
          /\ pc' = "Retrieve"
          /\ UNCHANGED <<variants, llm_temperature, calls, absorbed, exc>>
    /\ UNCHANGED <<store, req, category, matches, best_match, confidence, answer,
                   source, responses, synth, srch, gen, http, environ, confidence_threshold, db, faqs_id_seq, sql, par>>

\* Lines 103-108: search_with_metadata (retrieval_service.py, lines 154-164).
\* Either the embedding of query number failed raises, after failed calls,
\* or all queries are embedded and search_similar_faqs runs.
Retrieve ==
    /\ pc = "Retrieve"
    /\ LET n == 1 + Len(variants)
       IN  \/ /\ \E failed \in 1..n : calls' = [calls EXCEPT !.embedding = @ + failed]
              /\ Throw("embedding")
              /\ UNCHANGED <<matches, absorbed>>
           \/ /\ \E outcomes \in SearchOutcomes(store,
                                    QueryEmbeddings(req.question, variants), TopK) :
                    LET r == search_similar_faqs(outcomes, TopK)
                    IN  /\ absorbed' = [absorbed EXCEPT
                                           !.sub_search = SubSearchFailures(outcomes)]
                        /\ IF r.raised
                           THEN /\ Throw("retrieval")
                                /\ UNCHANGED matches
                           ELSE /\ matches' = r.result
                                /\ pc' = "Decide"
                                /\ UNCHANGED exc
              /\ calls' = [calls EXCEPT !.embedding = @ + n, !.search = @ + 2 * n]
    /\ UNCHANGED <<store, llm_temperature, req, category, variants, best_match,
                   confidence, answer, source, responses, synth, srch, gen, http, environ, confidence_threshold, db, faqs_id_seq, sql, par>>

\* Lines 110-115
Decide ==
    /\ pc = "Decide"
    /\ best_match' = BestMatch(matches)
    /\ confidence' = Confidence(BestMatch(matches))
    /\ pc' = IF UsesStored(Confidence(BestMatch(matches)), BestMatch(matches),
                            confidence_threshold)
             THEN "UseStored" ELSE "Synthesize"
    /\ UNCHANGED <<store, llm_temperature, req, category, variants, matches, answer,
                   source, exc, responses, calls, synth, absorbed, srch, gen, http, environ, confidence_threshold, db, faqs_id_seq, sql, par>>

\* Lines 116-118
UseStored ==
    /\ pc = "UseStored"
    /\ answer' = best_match[1].answer
    /\ source' = "database"
    /\ pc' = "Assemble"
    /\ UNCHANGED <<store, llm_temperature, req, category, variants, matches, best_match,
                   confidence, exc, responses, calls, synth, absorbed, srch, gen, http, environ, confidence_threshold, db, faqs_id_seq, sql, par>>

\* Lines 119-122 and _generate_llm_answer (lines 152-184)
Synthesize ==
    /\ pc = "Synthesize"
    /\ synth' = Append(synth, SynthesizerCall(matches))
    /\ calls' = Bump("synthesizer")
    /\ \E outcome \in SynthesizerOutcomes :
          /\ answer' = generate_llm_answer(outcome)
          /\ absorbed' = [absorbed EXCEPT !.synthesizer = ~outcome.ok]
    /\ source' = "llm"
    /\ pc' = "Assemble"
    /\ UNCHANGED <<store, llm_temperature, req, category, variants, matches, best_match,
                   confidence, exc, responses, srch, gen, http, environ, confidence_threshold, db, faqs_id_seq, sql, par>>

\* Lines 124-137: the response object is built and validated
Assemble ==
    /\ pc = "Assemble"
    /\ IF ResponseValidates(confidence, matches)
       THEN /\ responses' = Append(responses,
                    QuestionResponse(answer, source, confidence, best_match, matches,
                        IF req.generate_variants THEN SomeVariants(variants) ELSE NoVariants))
            /\ pc' = "Done"
            /\ UNCHANGED exc
       ELSE /\ Throw("assembly")
            /\ UNCHANGED responses
    /\ UNCHANGED <<store, llm_temperature, req, locals, calls, synth, absorbed, srch, gen, http, environ, confidence_threshold, db, faqs_id_seq, sql, par>>

\* Lines 139-150: the handler of the try block
Errored ==
    /\ pc = "Errored"
    /\ responses' = Append(responses, ErrorResponse)
    /\ pc' = "Done"
    /\ UNCHANGED <<store, llm_temperature, req, locals, exc, calls, synth, absorbed, srch, gen, http, environ, confidence_threshold, db, faqs_id_seq, sql, par>>

Next ==
    \/ Classify
    \/ ShortCircuitGeneral
    \/ Variants
    \/ Retrieve
    \/ Decide
    \/ UseStored
    \/ Synthesize
    \/ Assemble
    \/ Errored

Spec == Init /\ [][Next]_vars

\* answer_question runs on one thread until it returns: no stage stalls
FairSpec == Spec /\ WF_vars(Next)

(***************************************************************************)
(* search_similar_faqs called on its own (retrieval_service.py, lines      *)
(* 15-44), for every list of query embeddings and every top_k.             *)
(***************************************************************************)
SearchInit ==
    /\ store \in Stores
    /\ llm_temperature = DefaultTemperature
    /\ req \in {r \in Requests : r.question = <<"r">> /\ r.num_variants = 2 /\ r.generate_variants}
    /\ pc = "Idle"
    /\ InitLocals
    /\ srch \in {[phase |-> "called", query_embeddings |-> qe, top_k |-> k,
                  outcomes |-> <<>>, raised |-> FALSE, all_matches |-> <<>>,
                  deduplicated |-> <<>>, result |-> <<>>] :
                    qe \in SeqsUpTo(QueryVectors, MaxQueries), k \in TopKs}
    /\ gen = NoGen
    /\ http = NoHttp
    /\ environ = <<>>
    /\ confidence_threshold = InitConfidenceThreshold(environ)
    /\ db = NoDb
    /\ faqs_id_seq = 0
    /\ sql = NoStatement
    /\ par = NoPar

Search ==
    /\ srch.phase = "called"
    /\ \E outcomes \in SearchOutcomes(store, srch.query_embeddings, srch.top_k) :
          LET r == search_similar_faqs(outcomes, srch.top_k)
          IN  srch' = [srch EXCEPT !.phase = "returned", !.outcomes = outcomes,
                                   !.raised = r.raised, !.all_matches = r.all_matches,
                                   !.deduplicated = r.deduplicated, !.result = r.result]
    /\ UNCHANGED <<store, llm_temperature, req, pc, locals, exc, responses, calls,
                   synth, absorbed, gen, http, environ, confidence_threshold, db, faqs_id_seq, sql, par>>

SearchNext == Search

SearchSpec == SearchInit /\ [][SearchNext]_vars

(***************************************************************************)
(* generate_variants called on its own (variant_service.py, lines 32-63),  *)
(* for texts, counts and temperatures a caller can pass and for the        *)
(* responses the model can give.                                           *)
(***************************************************************************)
GenTexts == {<<>>, <<" ">>, <<" ", "\t">>, <<"r">>}

GenCounts == {-1, 0, 1, 2, 11}

GenTemperatures == {-1000, 3000, 20000}

GenItems ==
    {StrItem(<<"a">>), StrItem(<<" ", "A", " ">>), StrItem(<<"a", " ", "\t", "b">>),
     StrItem(<<"\"", "a", "\"">>), StrItem(<<"'", " ", "a", "'">>),
     StrItem(<<"'", "'">>), StrItem(<<>>), NumItem(<<"1">>), NullItem}

\* Eleven distinct items, more than the largest count generate_variants
\* asks for
ManyItems ==
    <<StrItem(<<"a">>), StrItem(<<"b">>), StrItem(<<"c">>), StrItem(<<"e">>),
      StrItem(<<"g">>), StrItem(<<"i">>), StrItem(<<"l">>), StrItem(<<"n">>),
      StrItem(<<"r">>), StrItem(<<"t">>), StrItem(<<"1">>)>>

GenItemLists == SeqsUpTo(GenItems, MaxItems) \cup {ManyItems}

GenResponses ==
    {[shape |-> sh, items |-> its] :
        sh \in {"object", "array", "text_array"}, its \in GenItemLists}
    \cup {[shape |-> "object_string", items |-> <<it>>] :
            it \in {x \in GenItems : x.t = "str"}}
    \cup {[shape |-> sh, items |-> <<>>] :
            sh \in {"object_scalar", "object_nokey", "scalar", "text", "text_bad"}}

GenOutcomes == {Raised} \cup {Returned(r) : r \in GenResponses}

GenInit ==
    /\ store = [faqs |-> <<>>, variants |-> <<>>]
    /\ llm_temperature = DefaultTemperature
    /\ req \in {r \in Requests : r.question = <<"r">> /\ r.num_variants = 2 /\ r.generate_variants}
    /\ pc = "Idle"
    /\ InitLocals
    /\ srch = NoSearch
    /\ gen \in {[phase |-> "called", text |-> t, n |-> n, temperature |-> temp,
                 outcome |-> o, result |-> <<>>, called |-> FALSE] :
                   t \in GenTexts, n \in GenCounts, temp \in GenTemperatures,
                   o \in GenOutcomes}
    /\ http = NoHttp
    /\ environ = <<>>
    /\ confidence_threshold = InitConfidenceThreshold(environ)
    /\ db = NoDb
    /\ faqs_id_seq = 0
    /\ sql = NoStatement
    /\ par = NoPar

Generate ==
    /\ gen.phase = "called"
    /\ LET r == generate_variants(gen.text, gen.n, gen.temperature, gen.outcome,
                                  llm_temperature)
       IN  /\ gen' = [gen EXCEPT !.phase = IF r.result.ok THEN "returned" ELSE "raised",
                                 !.result = r.result.val, !.called = r.called]
           /\ llm_temperature' = r.llm_temperature
           /\ calls' = IF r.called THEN Bump("variant_model") ELSE calls
    /\ UNCHANGED <<store, req, pc, locals, exc, responses, synth, absorbed, srch, http, environ, confidence_threshold, db, faqs_id_seq, sql, par>>

GenNext == Generate

GenSpec == GenInit /\ [][GenNext]_vars

(***************************************************************************)
(* answer_question over stores of six entries, so that more rows are       *)
(* stored than a search returns and more candidates are retrieved than the *)
(* synthesizer's context takes.  The entries are numbered by descending    *)
(* vector: the ids are arbitrary names.                                    *)
(***************************************************************************)
ContextStores ==
    {[faqs |-> f, variants |-> <<>>] :
        f \in {g \in [{1, 2, 3, 4, 5, 6} -> StoredVectors] :
                  \A i \in {1, 2, 3, 4, 5} : g[i] >= g[i + 1]}}

SynthInit ==
    /\ store \in ContextStores
    /\ llm_temperature = DefaultTemperature
    /\ req \in {r \in Requests : ~r.generate_variants
                                  \/ (r.num_variants = 1 /\ r.question = <<" ">>)}
    /\ pc = "Classify"
    /\ InitLocals
    /\ srch = NoSearch
    /\ gen = NoGen
    /\ http = NoHttp
    /\ environ = <<>>
    /\ confidence_threshold = InitConfidenceThreshold(environ)
    /\ db = NoDb
    /\ faqs_id_seq = 0
    /\ sql = NoStatement
    /\ par = NoPar

SynthSpec == SynthInit /\ [][Next]_vars

(***************************************************************************)
(* The endpoints POST /faq/ask and GET /faq/search (routes/faq.py) in      *)
(* front of answer_question, for an authenticated caller.                  *)
(***************************************************************************)
MinQuestionLength == 1

MaxQuestionLength == 500

MinNumVariants == 1

MaxNumVariants == 5

\* QuestionRequest's Field constraints (schemas.py, lines 6-9)
QuestionRequestValidates(question, num_variants) ==
    /\ MinQuestionLength <= Len(question)
    /\ Len(question) <= MaxQuestionLength
    /\ MinNumVariants <= num_variants
    /\ num_variants <= MaxNumVariants

\* A question of k characters
QuestionOfLength(k) == [i \in 1..k |-> "r"]

ApiQuestions ==
    {<<>>, <<" ">>, <<"r">>, QuestionOfLength(MaxQuestionLength),
     QuestionOfLength(MaxQuestionLength + 1)}

ApiCounts == {0, 1, 5, 6}

HttpRequests ==
    {[endpoint |-> e, question |-> q, generate_variants |-> g, num_variants |-> n,
      status |-> 0] :
        e \in {"ask", "search"}, q \in ApiQuestions, g \in BOOLEAN, n \in ApiCounts}

NoRequest == [question |-> <<>>, generate_variants |-> FALSE, num_variants |-> 0]

ApiInit ==
    /\ store \in {s \in Stores : DOMAIN s.faqs = {1} /\ s.variants = <<>>}
    /\ llm_temperature = DefaultTemperature
    /\ req = NoRequest
    /\ pc = "Boundary"
    /\ InitLocals
    /\ srch = NoSearch
    /\ gen = NoGen
    /\ http \in HttpRequests
    /\ environ = <<>>
    /\ confidence_threshold = InitConfidenceThreshold(environ)
    /\ db = NoDb
    /\ faqs_id_seq = 0
    /\ sql = NoStatement
    /\ par = NoPar

\* POST /faq/ask: the body is parsed into a QuestionRequest (a validation
\* error is answered with 422), then answer_question is called
AskQuestion ==
    /\ pc = "Boundary"
    /\ http.endpoint = "ask"
    /\ IF QuestionRequestValidates(http.question, http.num_variants)
       THEN /\ req' = [question |-> http.question,
                       generate_variants |-> http.generate_variants,
                       num_variants |-> http.num_variants]
            /\ pc' = "Classify"
            /\ UNCHANGED http
       ELSE /\ http' = [http EXCEPT !.status = 422]
            /\ pc' = "Rejected"
            /\ UNCHANGED req
    /\ UNCHANGED <<store, llm_temperature, locals, exc, responses, calls, synth,
                   absorbed, srch, gen, environ, confidence_threshold, db, faqs_id_seq, sql, par>>

\* GET /faq/search: lines 90-94 reject a blank q with 400, then
\* answer_question is called with the query parameters as they are
SearchFaqs ==
    /\ pc = "Boundary"
    /\ http.endpoint = "search"
    /\ IF IsBlank(http.question)
       THEN /\ http' = [http EXCEPT !.status = 400]
            /\ pc' = "Rejected"
            /\ UNCHANGED req
       ELSE /\ req' = [question |-> http.question,
                       generate_variants |-> http.generate_variants,
                       num_variants |-> http.num_variants]
            /\ pc' = "Classify"
            /\ UNCHANGED http
    /\ UNCHANGED <<store, llm_temperature, locals, exc, responses, calls, synth,
                   absorbed, srch, gen, environ, confidence_threshold, db, faqs_id_seq, sql, par>>

\* The endpoint returns the response of answer_question
EndpointReturn ==
    /\ pc = "Done"
    /\ http.endpoint \in {"ask", "search"}
    /\ http.status = 0
    /\ http' = [http EXCEPT !.status = 200]
    /\ UNCHANGED <<store, llm_temperature, req, pc, locals, exc, responses, calls,
                   synth, absorbed, srch, gen, environ, confidence_threshold, db, faqs_id_seq, sql, par>>

ApiNext ==
    \/ AskQuestion
    \/ SearchFaqs
    \/ EndpointReturn
    \/ Next

ApiSpec == ApiInit /\ [][ApiNext]_vars

(***************************************************************************)
(* search_similar_faqs over stores of two entries and three aliases, so    *)
(* that the aliases of one entry can fill the rows of a sub-search.        *)
(***************************************************************************)
AliasStores ==
    {[faqs |-> f, variants |-> v] :
        f \in [{1, 2} -> StoredVectors],
        v \in [{1, 2, 3} -> [faq_id : {1, 2}, vec : StoredVectors]]}

AliasInit ==
    /\ store \in AliasStores
    /\ llm_temperature = DefaultTemperature
    /\ req \in {r \in Requests : r.question = <<"r">> /\ r.num_variants = 2 /\ r.generate_variants}
    /\ pc = "Idle"
    /\ InitLocals
    /\ srch \in {[phase |-> "called", query_embeddings |-> <<q>>, top_k |-> k,
                  outcomes |-> <<>>, raised |-> FALSE, all_matches |-> <<>>,
                  deduplicated |-> <<>>, result |-> <<>>] :
                    q \in QueryVectors, k \in {1, 2}}
    /\ gen = NoGen
    /\ http = NoHttp
    /\ environ = <<>>
    /\ confidence_threshold = InitConfidenceThreshold(environ)
    /\ db = NoDb
    /\ faqs_id_seq = 0
    /\ sql = NoStatement
    /\ par = NoPar

AliasSpec == AliasInit /\ [][SearchNext]_vars

(***************************************************************************)
(* answer_question for a service constructed with CONFIDENCE_THRESHOLD     *)
(* set or not set in the environment.                                     *)
(***************************************************************************)
EnvThresholds == {<<>>, <<5000>>, <<9000>>}

ConfigInit ==
    /\ store \in {s \in Stores : DOMAIN s.faqs = {1} /\ s.variants = <<>>}
    /\ llm_temperature = DefaultTemperature
    /\ req \in {r \in Requests : ~r.generate_variants
                                  \/ (r.num_variants = 1 /\ r.question = <<" ">>)}
    /\ pc = "Classify"
    /\ InitLocals
    /\ srch = NoSearch
    /\ gen = NoGen
    /\ http = NoHttp
    /\ environ \in EnvThresholds
    /\ confidence_threshold = InitConfidenceThreshold(environ)
    /\ db = NoDb
    /\ faqs_id_seq = 0
    /\ sql = NoStatement
    /\ par = NoPar

ConfigSpec == ConfigInit /\ [][Next]_vars

(***************************************************************************)
(* DatabaseManager (database.py, lines 12-87): the connection pool and the *)
(* database operations, one action per step of the context managers.       *)
(* The manager is called from one thread: an operation runs to its end      *)
(* before the next call of the manager starts.                              *)
(***************************************************************************)
DefaultMinConn == 1

DefaultMaxConn == 5

LifespanMinConn == 2

LifespanMaxConn == 10

MaxCalls == 4

\* The arguments initialize_pool is called with: the defaults (database.py,
\* line 17; seed_database.py, line 263) and those of the lifespan (main.py,
\* line 32)
PoolSizes == {[minconn |-> DefaultMinConn, maxconn |-> DefaultMaxConn],
              [minconn |-> LifespanMinConn, maxconn |-> LifespanMaxConn]}

\* execute_query opens its cursor with commit=False, the others commit
Operations == {[name |-> "execute_query", commit |-> FALSE],
               [name |-> "execute_update", commit |-> TRUE],
               [name |-> "batch_insert", commit |-> TRUE],
               [name |-> "execute_query_with_batch", commit |-> TRUE]}

\* The external calls a caller of the manager makes between operations
ExternalCalls == {"classifier", "variant_model", "embedding", "synthesizer"}

\* bool(self._pool): a pool object is truthy, open or closed
PoolIsSet(d) == d.pool # "none"

\* initialize_pool, lines 18-28: the state after the call; opened is whether
\* SimpleConnectionPool(...) succeeded
initialize_pool(d, size, opened) ==
    IF ~PoolIsSet(d)
    THEN IF opened
         THEN [d EXCEPT !.pool = "open", !.minconn = size.minconn,
                        !.maxconn = size.maxconn, !.used = 0]
         ELSE d
    ELSE d

\* close_pool, lines 30-33: closeall() marks the pool closed; self._pool
\* keeps the closed pool
close_pool(d) ==
    IF PoolIsSet(d) /\ d.pool = "open"
    THEN [d EXCEPT !.pool = "closed", !.used = 0]
    ELSE d

\* The end of a call of the manager
Finish(d, event) ==
    [d EXCEPT !.phase = "idle", !.event = event, !.finished = @ + 1]

Idle == db.phase = "idle" /\ db.external = "none" /\ db.finished < MaxCalls

\* db_manager.initialize_pool(minconn, maxconn)
InitializePool ==
    /\ Idle
    /\ \E size \in PoolSizes, opened \in BOOLEAN :
          LET d == initialize_pool(db, size, opened)
              raised == ~PoolIsSet(db) /\ ~opened
          IN  db' = Finish([d EXCEPT !.armed = IF raised THEN @ ELSE TRUE,
                                     !.operation = "none", !.getconn = "none",
                                     !.failed_at = IF raised THEN "connect" ELSE "none"],
                           "initialize_pool")
    /\ UNCHANGED <<store, llm_temperature, req, pc, locals, exc, responses, calls, synth,
                   absorbed, srch, gen, http, environ, confidence_threshold,
                   faqs_id_seq, sql, par>>

\* db_manager.close_pool(); closeall() on a pool already closed raises
\* PoolError
ClosePool ==
    /\ Idle
    /\ db' = Finish([close_pool(db) EXCEPT
                        !.armed = FALSE, !.operation = "none", !.getconn = "none",
                        !.failed_at = IF db.pool = "closed" THEN "closeall" ELSE "none"],
                    "close_pool")
    /\ UNCHANGED <<store, llm_temperature, req, pc, locals, exc, responses, calls, synth,
                   absorbed, srch, gen, http, environ, confidence_threshold,
                   faqs_id_seq, sql, par>>

\* get_connection, lines 37-42, entered by one of the operations: the pool is
\* initialised if self._pool is not set, then getconn() hands out a
\* connection or raises (pool closed, pool exhausted, connection refused)
BeginOperation ==
    /\ Idle
    /\ \E op \in Operations, opened \in BOOLEAN, connected \in BOOLEAN :
          LET d == initialize_pool(db, [minconn |-> DefaultMinConn,
                                        maxconn |-> DefaultMaxConn], opened)
              e == [d EXCEPT !.operation = op.name, !.commit = op.commit,
                             !.failed_at = "none",
                             !.armed = IF ~PoolIsSet(db) /\ opened THEN TRUE ELSE @]
          IN  IF ~PoolIsSet(d)
              THEN db' = Finish([e EXCEPT !.failed_at = "connect", !.getconn = "none"],
                                "raised")
              ELSE IF d.pool = "closed"
              THEN db' = Finish([e EXCEPT !.failed_at = "getconn", !.getconn = "closed"],
                                "raised")
              ELSE IF d.used >= d.maxconn
              THEN db' = Finish([e EXCEPT !.failed_at = "getconn", !.getconn = "exhausted"],
                                "raised")
              ELSE IF ~connected
              THEN db' = Finish([e EXCEPT !.failed_at = "getconn", !.getconn = "refused"],
                                "raised")
              ELSE db' = [e EXCEPT !.getconn = "taken", !.used = @ + 1,
                                   !.phase = "cursor", !.event = "getconn"]
    /\ UNCHANGED <<store, llm_temperature, req, pc, locals, exc, responses, calls, synth,
                   absorbed, srch, gen, http, environ, confidence_threshold,
                   faqs_id_seq, sql, par>>

\* The steps of get_cursor and of the operation's body leave everything but
\* db alone
OperationStep(phase, next_phase, failure_phase) ==
    /\ db.phase = phase
    /\ \/ db' = [db EXCEPT !.phase = next_phase, !.event = phase]
       \/ db' = [db EXCEPT !.phase = failure_phase, !.event = phase,
                           !.failed_at = IF @ = "none" THEN phase ELSE @]
    /\ UNCHANGED <<store, llm_temperature, req, pc, locals, exc, responses, calls, synth,
                   absorbed, srch, gen, http, environ, confidence_threshold,
                   faqs_id_seq, sql, par>>

\* get_cursor, line 51: conn.cursor(), outside the try block of get_cursor
OpenCursor == OperationStep("cursor", "body", "release")

\* The body of the with block (lines 63-87): execute and fetch
Body == OperationStep("body", IF db.commit THEN "commit" ELSE "close", "rollback")

\* get_cursor, lines 54-55: conn.commit()
Commit == OperationStep("commit", "close", "rollback")

\* get_cursor, lines 56-58: conn.rollback(), then the exception is re-raised
Rollback == OperationStep("rollback", "close", "close")

\* get_cursor, lines 59-61: cursor.close()
CloseCursor == OperationStep("close", "release", "release")

\* Faulty variant of Release: the connection is returned only when the
\* operation succeeded
ReleaseOnSuccessOnly ==
    /\ db.phase = "release"
    /\ db' = Finish([db EXCEPT !.used = IF db.failed_at = "none" THEN @ - 1 ELSE @],
                    IF db.failed_at = "none" THEN "returned" ELSE "raised")
    /\ UNCHANGED <<store, llm_temperature, req, pc, locals, exc, responses, calls, synth,
                   absorbed, srch, gen, http, environ, confidence_threshold,
                   faqs_id_seq, sql, par>>

\* get_connection, lines 43-46: the finally block returns the connection
Release ==
    /\ db.phase = "release"
    /\ db' = Finish([db EXCEPT !.used = @ - 1],
                    IF db.failed_at = "none" THEN "returned" ELSE "raised")
    /\ UNCHANGED <<store, llm_temperature, req, pc, locals, exc, responses, calls, synth,
                   absorbed, srch, gen, http, environ, confidence_threshold,
                   faqs_id_seq, sql, par>>

\* The caller makes an external call between two operations
\* (retrieval_service.py, lines 154-164; qa_service.py, lines 73-122)
BeginExternal ==
    /\ Idle
    /\ \E kind \in ExternalCalls : db' = [db EXCEPT !.external = kind, !.event = kind]
    /\ UNCHANGED <<store, llm_temperature, req, pc, locals, exc, responses, calls, synth,
                   absorbed, srch, gen, http, environ, confidence_threshold,
                   faqs_id_seq, sql, par>>

EndExternal ==
    /\ db.external # "none"
    /\ db' = Finish([db EXCEPT !.external = "none"], "external_returned")
    /\ UNCHANGED <<store, llm_temperature, req, pc, locals, exc, responses, calls, synth,
                   absorbed, srch, gen, http, environ, confidence_threshold,
                   faqs_id_seq, sql, par>>

PoolInit ==
    /\ store \in {st \in Stores : st.variants = <<>>}
    /\ llm_temperature = DefaultTemperature
    /\ req \in {r \in Requests : ~r.generate_variants}
    /\ pc = "Done"
    /\ InitLocals
    /\ srch = NoSearch
    /\ gen = NoGen
    /\ http = NoHttp
    /\ environ = <<>>
    /\ confidence_threshold = InitConfidenceThreshold(environ)
    /\ db = NoDb
    /\ faqs_id_seq = 0
    /\ sql = NoStatement
    /\ par = NoPar

PoolNext ==
    \/ InitializePool
    \/ ClosePool
    \/ BeginOperation
    \/ OpenCursor
    \/ Body
    \/ Commit
    \/ Rollback
    \/ CloseCursor
    \/ Release
    \/ BeginExternal
    \/ EndExternal

PoolSpec == PoolInit /\ [][PoolNext]_vars

(***************************************************************************)
(* The tables faqs and faq_variants (initialize.py, lines 92-137) and the  *)
(* statements that change them.                                            *)
(***************************************************************************)
MaxStatements == 5

EmptyStore == [faqs |-> <<>>, variants |-> <<>>]

\* Faulty variant of ForeignKeyHolds: faq_id declared without REFERENCES
ForeignKeyUnchecked(st, faq_id) == TRUE

\* faq_id INTEGER NOT NULL REFERENCES faqs(id) (initialize.py, line 117)
ForeignKeyHolds(st, faq_id) == faq_id \in DOMAIN st.faqs

\* The rows of faq_variants that reference the entry id
VariantsOf(st, id) == {k \in 1..Len(st.variants) : st.variants[k].faq_id = id}

KeepsRow(row, ids) == row.faq_id \in ids

\* ON DELETE CASCADE (initialize.py, line 117): the rows of faq_variants
\* that reference a deleted entry go with it
CascadeDelete(rows, remaining) ==
    SelectSeq(rows, LAMBDA row : KeepsRow(row, remaining))

\* INSERT INTO faqs ... RETURNING id (seed_database.py, lines 61-66): the id
\* is the next value of the sequence of the SERIAL column
InsertFaq(st, id, vec) ==
    [st EXCEPT !.faqs = [i \in DOMAIN st.faqs \cup {id} |->
                            IF i = id THEN vec ELSE st.faqs[i]]]

\* DELETE FROM faqs WHERE id = ...
DeleteFaq(st, id) ==
    [faqs |-> [i \in DOMAIN st.faqs \ {id} |-> st.faqs[i]],
     variants |-> CascadeDelete(st.variants, DOMAIN st.faqs \ {id})]

Statement(name, faq_id, ok, cascaded) ==
    [statement |-> name, faq_id |-> faq_id, ok |-> ok, cascaded |-> cascaded,
     count |-> sql.count + 1]

\* create_tables (initialize.py, lines 92-139): both tables are dropped and
\* created again
CreateTables ==
    /\ sql.count < MaxStatements
    /\ store' = EmptyStore
    /\ faqs_id_seq' = 0
    /\ sql' = Statement("create_tables", 0, TRUE, Len(store.variants))
    /\ UNCHANGED <<llm_temperature, req, pc, locals, exc, responses, calls, synth,
                   absorbed, srch, gen, http, environ, confidence_threshold, db, par>>

\* insert_faqs (seed_database.py, lines 61-78), one row
InsertEntry ==
    /\ sql.count < MaxStatements
    /\ \E vec \in StoredVectors :
          store' = InsertFaq(store, faqs_id_seq + 1, vec)
    /\ faqs_id_seq' = faqs_id_seq + 1
    /\ sql' = Statement("insert_faq", faqs_id_seq + 1, TRUE, 0)
    /\ UNCHANGED <<llm_temperature, req, pc, locals, exc, responses, calls, synth,
                   absorbed, srch, gen, http, environ, confidence_threshold, db, par>>

\* _insert_variants_batch (seed_database.py, lines 139-154), one row: a row
\* violating the foreign key makes the statement fail, and get_cursor rolls
\* the transaction back
InsertVariant ==
    /\ sql.count < MaxStatements
    /\ \E faq_id \in 1..(faqs_id_seq + 1), vec \in StoredVectors :
          IF ForeignKeyHolds(store, faq_id)
          THEN /\ store' = [store EXCEPT !.variants =
                               Append(@, [faq_id |-> faq_id, vec |-> vec])]
               /\ sql' = Statement("insert_variant", faq_id, TRUE, 0)
          ELSE /\ store' = store
               /\ sql' = Statement("insert_variant", faq_id, FALSE, 0)
    /\ UNCHANGED <<llm_temperature, req, pc, locals, exc, responses, calls, synth,
                   absorbed, srch, gen, http, environ, confidence_threshold, db,
                   faqs_id_seq, par>>

\* DELETE FROM faqs WHERE id = faq_id, under the schema of create_tables
DeleteEntry ==
    /\ sql.count < MaxStatements
    /\ \E faq_id \in 1..(faqs_id_seq + 1) :
          /\ store' = DeleteFaq(store, faq_id)
          /\ sql' = Statement("delete_faq", faq_id, TRUE,
                              Cardinality(VariantsOf(store, faq_id)))
    /\ UNCHANGED <<llm_temperature, req, pc, locals, exc, responses, calls, synth,
                   absorbed, srch, gen, http, environ, confidence_threshold, db,
                   faqs_id_seq, par>>

\* clear_existing_data (seed_database.py, lines 28-34):
\* TRUNCATE TABLE faqs RESTART IDENTITY CASCADE
ClearExistingData ==
    /\ sql.count < MaxStatements
    /\ store' = EmptyStore
    /\ faqs_id_seq' = 0
    /\ sql' = Statement("truncate", 0, TRUE, Len(store.variants))
    /\ UNCHANGED <<llm_temperature, req, pc, locals, exc, responses, calls, synth,
                   absorbed, srch, gen, http, environ, confidence_threshold, db, par>>

\* The tables as create_tables leaves them
StoreInit ==
    /\ store = EmptyStore
    /\ llm_temperature = DefaultTemperature
    /\ req \in {r \in Requests : ~r.generate_variants /\ r.question = <<" ">>}
    /\ pc = "Done"
    /\ InitLocals
    /\ srch = NoSearch
    /\ gen = NoGen
    /\ http = NoHttp
    /\ environ = <<>>
    /\ confidence_threshold = InitConfidenceThreshold(environ)
    /\ db = NoDb
    /\ faqs_id_seq = 0
    /\ sql = NoStatement
    /\ par = NoPar

StoreNext ==
    \/ CreateTables
    \/ InsertEntry
    \/ InsertVariant
    \/ DeleteEntry
    \/ ClearExistingData

StoreSpec == StoreInit /\ [][StoreNext]_vars

(***************************************************************************)
(* Two requests served together.  Each has the locals of its own           *)
(* answer_question call.  qa_service, variant_service (with its llm),      *)
(* retrieval_service and db_manager are module-level objects: requests     *)
(* served by the same worker process use the same ones, requests served by *)
(* different worker processes use different ones and share the store only. *)
(* A request's steps are split where it reads or writes one of them.       *)
(***************************************************************************)
\* answer_question passes temperature=0.7 (qa_service.py, line 99)
RequestTemperature(r) == DefaultTemperature

ParRequests == {r \in Requests : r.question = <<"r">> /\ r.num_variants >= 1}

ParStores == {st \in Stores : st.variants = <<>> /\ Cardinality(DOMAIN st.faqs) <= 1}

\* The locals of one answer_question call, with the outcomes its external
\* calls had, the temperature its variant model call ran with, the request
\* whose assignment of llm.temperature it ran with, and its response
ParRequest(r) ==
    [req |-> r, pc |-> "Classify", router |-> Raised, variant |-> Raised,
     invoked_at |-> <<>>, read_from |-> 0, embedded |-> TRUE, search |-> <<>>,
     synthesizer |-> Raised, variants |-> <<>>, holds |-> FALSE,
     exhausted |-> FALSE, response |-> <<>>]

\* Lines 110-137 of answer_question for the candidates ms
Respond(r, vs, ms, synthesizer, threshold) ==
    LET best == BestMatch(ms)
        conf == Confidence(best)
        stored == UsesStored(conf, best, threshold)
    IN  IF ResponseValidates(conf, ms)
        THEN QuestionResponse(IF stored THEN best[1].answer
                                        ELSE generate_llm_answer(synthesizer),
                              IF stored THEN "database" ELSE "llm",
                              conf, best, ms,
                              IF r.generate_variants THEN SomeVariants(vs) ELSE NoVariants)
        ELSE ErrorResponse

\* The response of answer_question when the request is the only one served,
\* for the outcomes p records
Alone(p, env) ==
    IF ~p.router.ok THEN ErrorResponse
    ELSE IF IsGeneral(p.router.val) THEN GeneralResponse
    ELSE LET g == IF p.req.generate_variants
                  THEN generate_variants(p.req.question, p.req.num_variants,
                                         RequestTemperature(p.req), p.variant,
                                         DefaultTemperature).result
                  ELSE Returned(<<>>)
         IN  IF ~g.ok \/ ~p.embedded THEN ErrorResponse
             ELSE LET s == search_similar_faqs(p.search, TopK)
                  IN  IF s.raised THEN ErrorResponse
                      ELSE Respond(p.req, g.val, s.result, p.synthesizer,
                                   InitConfidenceThreshold(env))

Others == <<store, llm_temperature, req, pc, locals, exc, responses, calls, synth,
            absorbed, srch, gen, http, environ, confidence_threshold, db, faqs_id_seq,
            sql>>

Ends(p, response) == [p EXCEPT !.pc = "Done", !.response = <<response>>]

\* Faulty variant of Runs: the handlers are plain functions, which the
\* server runs in threads of the worker
RunsInThread(i) == TRUE

\* The handlers are coroutines that call answer_question without awaiting
\* anything (routes/faq.py, lines 24-58 and 74-102): the event loop of a
\* worker runs one handler to its end before it starts the next
Runs(i) ==
    \A j \in DOMAIN par.requests :
        (j # i /\ par.worker[j] = par.worker[i])
            => par.requests[j].pc \in {"Classify", "Done"}

\* Lines 73-91: the router chain and the test for "general"
ParClassify(i) ==
    /\ Runs(i)
    /\ par.requests[i].pc = "Classify"
    /\ \E outcome \in {o \in RouterOutcomes :
                            ~o.ok \/ o.val \in {<<"I", "T">>,
                                                <<"G", "e", "n", "e", "r", "a", "l">>}} :
          LET p == [par.requests[i] EXCEPT !.router = outcome]
          IN  par' = [par EXCEPT !.requests[i] =
                 IF ~outcome.ok THEN Ends(p, ErrorResponse)
                 ELSE IF IsGeneral(outcome.val) THEN Ends(p, GeneralResponse)
                 ELSE [p EXCEPT !.pc = IF p.req.generate_variants
                                       THEN "Variants" ELSE "Embed"]]
    /\ UNCHANGED Others

\* generate_variants up to line 49: the early return for a blank text, then
\* the assignment of self.llm.temperature on the llm of the worker
ParVariants(i) ==
    /\ Runs(i)
    /\ par.requests[i].pc = "Variants"
    /\ LET p == par.requests[i]
           w == par.worker[i]
       IN  IF IsBlank(p.req.question)
           THEN par' = [par EXCEPT !.requests[i].pc = "Embed"]
           ELSE par' = [par EXCEPT
                           !.requests[i].pc = "Invoke",
                           !.llm_temperature[w] = ClampTemperature(RequestTemperature(p.req)),
                           !.writer[w] = i]
    /\ UNCHANGED Others

\* generate_variants, lines 51-63: the chain runs with the temperature the
\* llm of the worker has now
ParInvoke(i) ==
    /\ Runs(i)
    /\ par.requests[i].pc = "Invoke"
    /\ \E outcome \in {o \in VariantModelOutcomes :
                            ~o.ok \/ (o.val.shape = "object"
                                      /\ o.val.items = <<StrItem(<<"a">>)>>)} :
          LET w == par.worker[i]
              p == [par.requests[i] EXCEPT !.variant = outcome,
                                           !.invoked_at = <<par.llm_temperature[w]>>,
                                           !.read_from = par.writer[w]]
              g == GuardedVariants(outcome, ClampCount(p.req.num_variants))
          IN  par' = [par EXCEPT !.requests[i] =
                 IF g.ok THEN [p EXCEPT !.variants = g.val, !.pc = "Embed"]
                 ELSE Ends(p, ErrorResponse)]
    /\ UNCHANGED Others

\* search_with_metadata, lines 154-158: every query is embedded
ParEmbed(i) ==
    /\ Runs(i)
    /\ par.requests[i].pc = "Embed"
    /\ \E embedded \in BOOLEAN :
          LET p == [par.requests[i] EXCEPT !.embedded = embedded]
          IN  par' = [par EXCEPT !.requests[i] =
                 IF embedded THEN [p EXCEPT !.pc = "Acquire"]
                 ELSE Ends(p, ErrorResponse)]
    /\ UNCHANGED Others

\* get_connection inside execute_query: getconn() on the pool of the worker;
\* PoolError when every connection is checked out
ParAcquire(i) ==
    /\ Runs(i)
    /\ par.requests[i].pc = "Acquire"
    /\ LET w == par.worker[i]
       IN  IF par.used[w] < LifespanMaxConn
           THEN par' = [par EXCEPT !.used[w] = @ + 1,
                                   !.requests[i].holds = TRUE,
                                   !.requests[i].pc = "Query"]
           ELSE par' = [par EXCEPT !.requests[i].exhausted = TRUE,
                                   !.requests[i].pc = "Query"]
    /\ UNCHANGED Others

\* The queries of the sub-searches and putconn(); then lines 110-118 and, for
\* a stored answer, the response.  Without a connection every sub-search
\* returns [].
ParQuery(i) ==
    /\ Runs(i)
    /\ par.requests[i].pc = "Query"
    /\ \E outcomes \in SearchOutcomes(store,
                          QueryEmbeddings(par.requests[i].req.question,
                                          par.requests[i].variants), TopK) :
          /\ par.requests[i].exhausted =>
                \A k \in 1..Len(outcomes) : ~outcomes[k].faq.ok /\ ~outcomes[k].variant.ok
          /\ LET w == par.worker[i]
                 p == [par.requests[i] EXCEPT !.search = outcomes, !.holds = FALSE]
                 s == search_similar_faqs(outcomes, TopK)
                 best == BestMatch(s.result)
                 q == IF s.raised THEN Ends(p, ErrorResponse)
                      ELSE IF UsesStored(Confidence(best), best, confidence_threshold)
                      THEN Ends(p, Respond(p.req, p.variants, s.result, p.synthesizer,
                                           confidence_threshold))
                      ELSE [p EXCEPT !.pc = "Synthesize"]
             IN  par' = [par EXCEPT !.requests[i] = q,
                                    !.used[w] = IF par.requests[i].holds THEN @ - 1 ELSE @]
    /\ UNCHANGED Others

\* Lines 119-137: the synthesizer and the response
ParSynthesize(i) ==
    /\ Runs(i)
    /\ par.requests[i].pc = "Synthesize"
    /\ \E outcome \in SynthesizerOutcomes :
          LET p == [par.requests[i] EXCEPT !.synthesizer = outcome]
          IN  par' = [par EXCEPT !.requests[i] =
                 Ends(p, Respond(p.req, p.variants,
                                 search_similar_faqs(p.search, TopK).result,
                                 outcome, confidence_threshold))]
    /\ UNCHANGED Others

\* Two requests have arrived, at the same worker or at two; every worker has
\* constructed its services (variant_service.py, lines 16-30) and opened its
\* pool (main.py, line 32)
ParInit ==
    /\ store \in ParStores
    /\ llm_temperature = DefaultTemperature
    /\ req \in {r \in Requests : ~r.generate_variants /\ r.question = <<" ">>}
    /\ pc = "Done"
    /\ InitLocals
    /\ srch = NoSearch
    /\ gen = NoGen
    /\ http = NoHttp
    /\ environ = <<>>
    /\ confidence_threshold = InitConfidenceThreshold(environ)
    /\ db = NoDb
    /\ faqs_id_seq = 0
    /\ sql = NoStatement
    /\ par \in {[requests |-> <<ParRequest(r1), ParRequest(r2)>>,
                 worker |-> <<1, w2>>,
                 llm_temperature |-> <<DefaultTemperature, DefaultTemperature>>,
                 writer |-> <<0, 0>>,
                 used |-> <<0, 0>>] :
                  r1 \in ParRequests, r2 \in ParRequests, w2 \in {1, 2}}

ParNext ==
    \E i \in {1, 2} :
        \/ ParClassify(i)
        \/ ParVariants(i)
        \/ ParInvoke(i)
        \/ ParEmbed(i)
        \/ ParAcquire(i)
        \/ ParQuery(i)
        \/ ParSynthesize(i)

ParSpec == ParInit /\ [][ParNext]_vars

(***************************************************************************)
(* Properties of answer_question, checked under Spec.                      *)
(***************************************************************************)
\* The Decide step has run and its answer and source are set
Decided == pc = "Assemble" \/ (pc \in {"Errored", "Done"} /\ source # "unset")

\* The stored answer is chosen
StoredChosen == matches # <<>> /\ matches[1].similarity >= 7500

\* C1: once the Decide step has run on the retrieved matches, with best the
\* first match (none for an empty list) and confidence its similarity (0.0
\* for none): source is 'database' and the answer is best's answer exactly
\* when best exists and confidence >= 0.75, and no synthesizer call was made;
\* otherwise source is 'llm' and the synthesizer was called once.  A best
\* similarity of 0.75 gives 'database', one of 0.7499 gives 'llm'.  The
\* response built from these values carries them.
C1_DecideRouting ==
    /\ Decided =>
        /\ best_match = (IF matches = <<>> THEN <<>> ELSE <<matches[1]>>)
        /\ confidence = (IF matches = <<>> THEN 0 ELSE matches[1].similarity)
        /\ (source = "database") <=> StoredChosen
        /\ StoredChosen => answer = matches[1].answer /\ calls.synthesizer = 0
        /\ ~StoredChosen => source = "llm" /\ calls.synthesizer = 1
        /\ (matches # <<>> /\ matches[1].similarity = 7500) => source = "database"
        /\ (matches # <<>> /\ matches[1].similarity = 7499) => source = "llm"
    /\ (pc = "Done" /\ Decided /\ exc = "none") =>
        /\ Len(responses) = 1
        /\ responses[1].source = source
        /\ responses[1].answer = answer
        /\ responses[1].confidence = confidence

\* A stored answer returned for a best match exactly at the threshold
C1_Witness ==
    /\ pc = "Done"
    /\ Len(responses) = 1
    /\ responses[1].source = "database"
    /\ responses[1].confidence = 7500
    /\ responses[1].answer = FaqAnswer(responses[1].matched_faq[1].faq_id)

\* A synthesized answer returned for a best match just below the threshold
C1_WitnessBelow ==
    /\ pc = "Done"
    /\ Len(responses) = 1
    /\ responses[1].source = "llm"
    /\ responses[1].confidence = 7499

\* The classifier call was made and raised: no label was stored
ClassifierFailed == calls.router = 1 /\ category = <<>>

\* The response of the except clause of answer_question
C3_ErrorResponse ==
    [answer |-> Text("error_apology", 0), source |-> "error", confidence |-> 0,
     matched_faq |-> <<>>, all_matches |-> <<>>,
     generated_variants |-> [some |-> FALSE, val |-> <<>>],
     processing_time_ms |-> "measured"]

\* C3: no exception leaves answer_question; an exception that reaches its
\* try block, at any stage, goes to the handler, and the request then ends
\* with exactly one response: source='error', confidence=0.0, the fixed
\* apology, no matched_faq, no matches, no generated_variants, and the
\* processing time set.
C3_NeverPropagates ==
    /\ pc # "Raised"
    /\ exc # "none" => pc \in {"Errored", "Done"}
    /\ (pc = "Done" /\ exc # "none") => responses = <<C3_ErrorResponse>>

\* The response assembly raised after an answer had been synthesized, and
\* the request ended with the error response
C3_Witness ==
    /\ pc = "Done"
    /\ exc = "assembly"
    /\ calls.synthesizer = 1
    /\ responses = <<C3_ErrorResponse>>

\* C4: whenever the classifier's output holds 'general' as a
\* case-insensitive substring, the request goes to the short circuit and
\* ends with the canned refusal, source='llm', confidence=1.0, no
\* matched_faq, no matches and no generated_variants; no variant-model,
\* embedding, store-search or synthesizer call is made.
C4_GeneralShortCircuit ==
    (category # <<>> /\ Contains(Lower(category), <<"g", "e", "n", "e", "r", "a", "l">>)) =>
        /\ pc \in {"ShortCircuitGeneral", "Done"}
        /\ exc = "none"
        /\ calls.variant_model = 0
        /\ calls.embedding = 0
        /\ calls.search = 0
        /\ calls.synthesizer = 0
        /\ pc = "Done" =>
              responses = <<[answer |-> Text("default_general_answer", 0),
                             source |-> "llm", confidence |-> 10000,
                             matched_faq |-> <<>>, all_matches |-> <<>>,
                             generated_variants |-> [some |-> FALSE, val |-> <<>>],
                             processing_time_ms |-> "measured"]>>

\* The label 'GENERAL.' ended in the canned refusal for a request that
\* asked for variants
C4_Witness ==
    /\ pc = "Done"
    /\ category = <<"G", "E", "N", "E", "R", "A", "L", ".">>
    /\ req.generate_variants
    /\ Len(responses) = 1
    /\ responses[1].source = "llm"
    /\ responses[1].confidence = 10000

\* The stage of the request state machine a position belongs to; variant
\* generation is part of Retrieve, Respond builds the response of UseStored
\* or Synthesize
StageOf(p) ==
    CASE p \in {"Variants", "Retrieve"} -> "Retrieve"
      [] p = "Assemble" -> "Respond"
      [] OTHER -> p

StageSteps ==
    {<<"Classify", "ShortCircuitGeneral">>, <<"Classify", "Retrieve">>,
     <<"Retrieve", "Retrieve">>, <<"Retrieve", "Decide">>,
     <<"Decide", "UseStored">>, <<"Decide", "Synthesize">>,
     <<"UseStored", "Respond">>, <<"Synthesize", "Respond">>,
     <<"ShortCircuitGeneral", "Done">>, <<"Respond", "Done">>, <<"Errored", "Done">>,
     <<"Classify", "Errored">>, <<"Retrieve", "Errored">>, <<"Respond", "Errored">>}

\* C7: every request reaches the terminal state, having emitted exactly
\* one response; it only takes the steps Classify -> ShortCircuitGeneral,
\* Classify -> Retrieve -> Decide -> (UseStored | Synthesize), each then to
\* the response, or a step to the error terminal; the synthesizer is called
\* only on the Synthesize path, and no retrieval call is made before the
\* classifier call.
C7_StateMachine ==
    /\ <>(pc = "Done")
    /\ [](Len(responses) <= 1 /\ (pc = "Done" <=> Len(responses) = 1))
    /\ [][pc' # pc => <<StageOf(pc), StageOf(pc')>> \in StageSteps]_vars
    /\ [][calls'.synthesizer # calls.synthesizer => pc = "Synthesize"]_vars
    /\ [](calls.synthesizer > 0 =>
            source = "llm" /\ ~Contains(Lower(category), <<"g", "e", "n", "e", "r", "a", "l">>))
    /\ [](calls.variant_model + calls.embedding + calls.search > 0 => calls.router = 1)

\* A request that went through Synthesize and emitted its response
C7_Witness ==
    /\ pc = "Done"
    /\ exc = "none"
    /\ calls.synthesizer = 1
    /\ calls.search > 0
    /\ Len(responses) = 1
    /\ responses[1].source = "llm"

\* C9 as claimed: when the classifier call fails the request is treated as
\* non-General and goes on to Retrieve and Decide, ending with a database
\* or llm answer.
C9_ClassifierFailureContinues ==
    (pc = "Done" /\ ClassifierFailed) =>
        /\ calls.embedding > 0
        /\ responses[1].source \in {"database", "llm"}

\* C10: no outcome of the variant model call (the call raising, text that
\* is not JSON, JSON of another shape) makes generate_variants raise; it
\* returns a list of at most the clamped count, which is the requested
\* count when that is at least 1, empty when the call raised or the JSON
\* had another shape, and answer_question goes on to retrieval.
C10_VariantsNeverRaise ==
    /\ exc # "variant_generation"
    /\ Len(variants) <= (IF req.num_variants < 1 THEN 1
                         ELSE IF req.num_variants > 10 THEN 10 ELSE req.num_variants)
    /\ req.num_variants >= 1 => Len(variants) <= req.num_variants
    /\ absorbed.variant \in {"call", "shape"} => variants = <<>>
    /\ absorbed.variant # "none" =>
          /\ calls.variant_model = 1
          /\ pc = "Retrieve" \/ calls.embedding >= 1

\* A request whose variant model answered with JSON of another shape and
\* that still ended with a stored answer
C10_Witness ==
    /\ pc = "Done"
    /\ absorbed.variant = "shape"
    /\ variants = <<>>
    /\ Len(responses) = 1
    /\ responses[1].source = "database"
    /\ responses[1].generated_variants = [some |-> TRUE, val |-> <<>>]

\* C11 as claimed: when every sub-search of a request fails at the store,
\* the failure leaves the retrieval call and the request ends with the
\* error response, not with a synthesized answer over an empty list.
C11_StorageFailurePropagates ==
    (pc = "Done" /\ absorbed.sub_search = "all") =>
        /\ exc # "none"
        /\ responses[1].source = "error"

\* C12 as claimed: a failure of any stage, the synthesizer call included,
\* is reported only by the error response; no response carries an apology
\* answer with source 'llm' or 'database', a non-zero confidence or match
\* metadata.
C12_SingleFailureMode ==
    /\ (pc = "Done" /\ absorbed.synthesizer) => responses[1].source = "error"
    /\ \A i \in 1..Len(responses) :
          responses[i].answer \in {Text("error_apology", 0), Text("llm_failure_apology", 0)} =>
              /\ responses[i].source = "error"
              /\ responses[i].confidence = 0
              /\ responses[i].matched_faq = <<>>
              /\ responses[i].all_matches = <<>>

\* C18: every response answer_question emits, on every path and for every
\* outcome of the external calls, has source in {database, llm, error} and
\* 0 <= confidence <= 1.
C18_ResponseWellFormed ==
    \A i \in 1..Len(responses) :
        /\ responses[i].source \in {"database", "llm", "error"}
        /\ 0 <= responses[i].confidence
        /\ responses[i].confidence <= 10000

\* The best candidate had a negative similarity (only an alias search
\* answered, for a vector more than a right angle away): the response
\* emitted is the error response, with confidence 0.0
C18_Witness ==
    /\ pc = "Done"
    /\ confidence < 0
    /\ source = "llm"
    /\ Len(responses) = 1
    /\ responses[1].source = "error"
    /\ responses[1].confidence = 0

(***************************************************************************)
(* Properties of the Synthesize path, checked under SynthSpec.             *)
(***************************************************************************)
\* The positions of the retrieved candidates with similarity >= 0.5
EligibleIdx == {i \in 1..Len(matches) : matches[i].similarity >= 5000}

\* The j-th of them in ranked order
NthEligible(j) ==
    CHOOSE i \in EligibleIdx : Cardinality({k \in EligibleIdx : k < i}) = j - 1

\* The Synthesize step has run
Synthesized == pc \in {"Assemble", "Errored", "Done"} /\ source = "llm"

\* C13: on the Synthesize path exactly one synthesizer call is made; its
\* context is the first 3, in ranked order, of the retrieved candidates with
\* similarity >= 0.5; the call is grounded with that context when it is
\* non-empty and ungrounded, with the question only, when it is empty; the
\* response has source='llm'.  No call is made on the other paths.
C13_ContextSelection ==
    /\ Synthesized =>
        /\ Len(synth) = 1
        /\ calls.synthesizer = 1
        /\ Len(synth[1].context) =
              (IF Cardinality(EligibleIdx) > 3 THEN 3 ELSE Cardinality(EligibleIdx))
        /\ \A j \in 1..Len(synth[1].context) :
              synth[1].context[j] = matches[NthEligible(j)]
        /\ synth[1].mode = (IF EligibleIdx # {} THEN "grounded" ELSE "ungrounded")
    /\ ~Synthesized => synth = <<>> /\ calls.synthesizer = 0
    /\ (pc = "Done" /\ Synthesized /\ exc = "none") =>
        /\ Len(responses) = 1
        /\ responses[1].source = "llm"

\* A synthesized answer for five candidates, four of them at 0.5 and one
\* below: the context is the first three
C13_Witness ==
    /\ pc = "Done"
    /\ exc = "none"
    /\ Len(matches) = 5
    /\ matches[4].similarity = 5000
    /\ matches[5].similarity < 5000
    /\ Len(synth) = 1
    /\ synth[1].mode = "grounded"
    /\ synth[1].context = SubSeq(matches, 1, 3)
    /\ responses[1].source = "llm"

\* A synthesized answer when no candidate reaches 0.5: the ungrounded call
C13_WitnessUngrounded ==
    /\ pc = "Done"
    /\ exc = "none"
    /\ matches # <<>>
    /\ synth = <<[mode |-> "ungrounded", context |-> <<>>]>>
    /\ responses[1].source = "llm"

(***************************************************************************)
(* Properties of generate_variants, checked under GenSpec.                 *)
(***************************************************************************)
GenReturned == gen.phase = "returned"

\* The normalization the variants go through: whitespace collapse, trim,
\* wrapping-quote strip
Normalized(v) == Strip(Strip(CollapseWhitespace(v), {" ", "\t", "\n"}), {"\"", "'"})

\* C14 as claimed: the returned list has at most min(max(n,1),10) variants
\* and no two of them are equal, compared case-insensitively after
\* normalization.
C14_CountAndDistinct ==
    GenReturned =>
        /\ Len(gen.result) <= (IF gen.n < 1 THEN 1 ELSE IF gen.n > 10 THEN 10 ELSE gen.n)
        /\ \A i, j \in 1..Len(gen.result) :
              i < j => Lower(Normalized(gen.result[i])) # Lower(Normalized(gen.result[j]))

\* The part of C14 the code keeps: the count bound, and distinctness of the
\* variants compared case-insensitively as they are returned
CountAndDistinctAsReturned ==
    GenReturned =>
        /\ Len(gen.result) <= (IF gen.n < 1 THEN 1 ELSE IF gen.n > 10 THEN 10 ELSE gen.n)
        /\ \A i, j \in 1..Len(gen.result) :
              i < j => Lower(gen.result[i]) # Lower(gen.result[j])

\* C15: called with an empty or whitespace-only text, for every count,
\* temperature and model behaviour, generate_variants returns the empty
\* list, makes no model call and leaves the model's temperature as it was.
C15_EmptyShortCircuit ==
    (gen.phase \in {"returned", "raised"}
     /\ \A i \in 1..Len(gen.text) : gen.text[i] \in {" ", "\t", "\n"}) =>
        /\ gen.phase = "returned"
        /\ gen.result = <<>>
        /\ ~gen.called
        /\ calls.variant_model = 0
        /\ llm_temperature = 7000

\* A whitespace-only text, with a count and a temperature out of range and
\* a model that would have answered
C15_Witness ==
    /\ GenReturned
    /\ gen.text = <<" ", "\t">>
    /\ gen.n = 11
    /\ gen.temperature = 20000
    /\ gen.outcome.ok
    /\ gen.outcome.val.items # <<>>
    /\ gen.result = <<>>

\* The items of the response are all JSON strings
AllStrings(response) == \A i \in 1..Len(response.items) : response.items[i].t = "str"

\* C16 as claimed: for a response that is a bare JSON array of strings, an
\* object with that array under 'paraphrases', or text that is not JSON
\* but holds a bracket-delimited JSON array, the call returns the
\* normalized items of the array, the same in each case.
C16_PermissiveParsing ==
    (GenReturned /\ gen.called /\ gen.outcome.ok
     /\ gen.outcome.val.shape \in {"object", "array", "text_array"}
     /\ AllStrings(gen.outcome.val)) =>
        gen.result =
            clean_variants([i \in 1..Len(gen.outcome.val.items) |-> gen.outcome.val.items[i].v],
                           IF gen.n < 1 THEN 1 ELSE IF gen.n > 10 THEN 10 ELSE gen.n)

\* The part of C16 the code keeps: the object and the salvaged array
ObjectAndSalvageParsed ==
    (GenReturned /\ gen.called /\ gen.outcome.ok
     /\ gen.outcome.val.shape \in {"object", "text_array"}
     /\ AllStrings(gen.outcome.val)) =>
        gen.result =
            clean_variants([i \in 1..Len(gen.outcome.val.items) |-> gen.outcome.val.items[i].v],
                           IF gen.n < 1 THEN 1 ELSE IF gen.n > 10 THEN 10 ELSE gen.n)

\* C17 as claimed: every returned string is non-empty, has no leading or
\* trailing whitespace, no run of more than one whitespace character, and
\* no quote character at either end.
C17_NormalForm ==
    GenReturned =>
        \A i \in 1..Len(gen.result) :
            LET v == gen.result[i]
            IN  /\ v # <<>>
                /\ v[1] \notin {" ", "\t", "\n"}
                /\ v[Len(v)] \notin {" ", "\t", "\n"}
                /\ \A k \in 1..(Len(v) - 1) :
                      ~(v[k] \in {" ", "\t", "\n"} /\ v[k + 1] \in {" ", "\t", "\n"})
                /\ v[1] \notin {"\"", "'"}
                /\ v[Len(v)] \notin {"\"", "'"}

\* The part of C17 the code keeps: every property but the one on leading
\* and trailing whitespace
NormalFormButTrim ==
    GenReturned =>
        \A i \in 1..Len(gen.result) :
            LET v == gen.result[i]
            IN  /\ v # <<>>
                /\ \A k \in 1..(Len(v) - 1) :
                      ~(v[k] \in {" ", "\t", "\n"} /\ v[k + 1] \in {" ", "\t", "\n"})
                /\ v[1] \notin {"\"", "'"}
                /\ v[Len(v)] \notin {"\"", "'"}

(***************************************************************************)
(* Properties of the endpoints, checked under ApiSpec.                     *)
(***************************************************************************)
\* answer_question has been entered
PipelineEntered == pc \notin {"Boundary", "Rejected"}

\* C20 as claimed: through both endpoints answer_question is entered only
\* with a question of 1..500 characters that is not whitespace-only and a
\* variant count in 1..5; any other request is rejected before a
\* classifier, variant model, embedder or store call is made.
C20_InputBoundary ==
    /\ PipelineEntered =>
        /\ Len(req.question) >= 1
        /\ Len(req.question) <= 500
        /\ \E i \in 1..Len(req.question) : req.question[i] \notin {" ", "\t", "\n"}
        /\ req.num_variants >= 1
        /\ req.num_variants <= 5
    /\ pc = "Rejected" =>
        /\ calls = [router |-> 0, variant_model |-> 0, embedding |-> 0, search |-> 0,
                    synthesizer |-> 0]
        /\ responses = <<>>

\* What the endpoints keep of C20: POST /faq/ask enforces the length and
\* the count, GET /faq/search enforces a non-blank question, and a rejected
\* request touches nothing
BoundaryAsEnforced ==
    /\ (PipelineEntered /\ http.endpoint = "ask") =>
        /\ Len(req.question) >= 1
        /\ Len(req.question) <= 500
        /\ req.num_variants >= 1
        /\ req.num_variants <= 5
    /\ (PipelineEntered /\ http.endpoint = "search") =>
        \E i \in 1..Len(req.question) : req.question[i] \notin {" ", "\t", "\n"}
    /\ pc = "Rejected" =>
        /\ calls = [router |-> 0, variant_model |-> 0, embedding |-> 0, search |-> 0,
                    synthesizer |-> 0]
        /\ responses = <<>>

(***************************************************************************)
(* Properties of search_similar_faqs, checked under SearchSpec.            *)
(***************************************************************************)
SearchReturned == srch.phase = "returned" /\ ~srch.raised

\* The faq_ids of a list of candidates
FaqIdsOf(ms) == {ms[i].faq_id : i \in 1..Len(ms)}

\* The candidates of a pool for one faq_id
CandidatesFor(pool, id) == {m \in Range(pool) : m.faq_id = id}

\* C2: for the pool all_matches of every call, the deduplicated list holds
\* exactly one candidate per faq_id of the pool and none of another faq_id;
\* that candidate is a candidate of the pool for that faq_id and its
\* similarity is the maximum over the pool's candidates for that faq_id.
C2_DedupCorrect ==
    SearchReturned =>
        /\ FaqIdsOf(srch.deduplicated) = FaqIdsOf(srch.all_matches)
        /\ \A id \in FaqIdsOf(srch.all_matches) :
              /\ Cardinality({i \in 1..Len(srch.deduplicated) :
                                srch.deduplicated[i].faq_id = id}) = 1
              /\ \A i \in 1..Len(srch.deduplicated) :
                    srch.deduplicated[i].faq_id = id =>
                        /\ srch.deduplicated[i] \in CandidatesFor(srch.all_matches, id)
                        /\ \A m \in CandidatesFor(srch.all_matches, id) :
                              m.similarity <= srch.deduplicated[i].similarity

\* A pool where a later candidate of a faq_id, found by another query
\* embedding in the other table, beats the first one
C2_Witness ==
    /\ SearchReturned
    /\ \E i, j \in 1..Len(srch.all_matches) :
          /\ i < j
          /\ srch.all_matches[i].faq_id = srch.all_matches[j].faq_id
          /\ srch.all_matches[i].similarity < srch.all_matches[j].similarity
          /\ srch.all_matches[i].source = "faq"
          /\ srch.all_matches[j].source = "variant"
          /\ srch.all_matches[j] \in Range(srch.deduplicated)
    /\ Len(srch.query_embeddings) = 2

\* C5: the list returned by every call is non-increasing in similarity.
C5_RankingOrder ==
    SearchReturned =>
        \A i \in 1..(Len(srch.result) - 1) :
            srch.result[i].similarity >= srch.result[i + 1].similarity

\* A returned list of two entries whose order differs from the order in
\* which the deduplicated list held them
C5_Witness ==
    /\ SearchReturned
    /\ Len(srch.result) = 2
    /\ srch.result[1].similarity > srch.result[2].similarity
    /\ srch.deduplicated = <<srch.result[2], srch.result[1]>>

\* C6: the list returned by every call has at most top_k entries, at most
\* as many entries as there are distinct faq_ids among the rows the
\* sub-searches returned, and no faq_id twice.
C6_TopKBound ==
    SearchReturned =>
        /\ Len(srch.result) <= srch.top_k
        /\ Len(srch.result) <= Cardinality(FaqIdsOf(srch.all_matches))
        /\ \A i, j \in 1..Len(srch.result) :
              srch.result[i].faq_id = srch.result[j].faq_id => i = j

\* A call whose sub-searches saw more faq_ids than top_k
C6_Witness ==
    /\ SearchReturned
    /\ Cardinality(FaqIdsOf(srch.all_matches)) > srch.top_k
    /\ Len(srch.result) = srch.top_k

\* The candidates of the sub-searches that did not fail, in call order
RECURSIVE SurvivingPool(_)
SurvivingPool(outcomes) ==
    IF outcomes = <<>> THEN <<>>
    ELSE LET o == Head(outcomes)
             f == IF o.faq.ok
                  THEN [i \in 1..Len(o.faq.val) |-> FaqMatch(o.faq.val[i])] ELSE <<>>
             v == IF o.variant.ok
                  THEN [i \in 1..Len(o.variant.val) |-> VariantMatch(o.variant.val[i])]
                  ELSE <<>>
         IN  f \o v \o SurvivingPool(Tail(outcomes))

\* C8: whatever sub-searches fail, the call returns (no exception leaves
\* it), and what it returns is the deduplicated, sorted and truncated pool
\* of the candidates of the sub-searches that did not fail.
C8_SubSearchIsolation ==
    srch.phase = "returned" =>
        /\ ~srch.raised
        /\ srch.all_matches = SurvivingPool(srch.outcomes)
        /\ srch.result =
              Take(SortDescending(deduplicate_matches(SurvivingPool(srch.outcomes))),
                   srch.top_k)

\* One sub-search of the faqs table failed, for one of two query embeddings,
\* and the call still returned the candidates of the others
C8_Witness ==
    /\ srch.phase = "returned"
    /\ ~srch.raised
    /\ Len(srch.outcomes) = 2
    /\ ~srch.outcomes[1].faq.ok
    /\ srch.outcomes[1].variant.ok
    /\ srch.outcomes[2].faq.ok /\ srch.outcomes[2].variant.ok
    /\ srch.outcomes[2].faq.val # <<>>
    /\ srch.result # <<>>

\* C19 as claimed: every candidate returned by search_similar_faqs has a
\* similarity within [0, 1], for cosine distances over [0, 2].
C19_SimilarityRange ==
    (srch.phase = "returned" /\ ~srch.raised) =>
        \A i \in 1..Len(srch.result) :
            /\ 0 <= srch.result[i].similarity
            /\ srch.result[i].similarity <= 10000

\* What the code keeps of C19: the similarity is 1 minus a distance of
\* [0, 2], so it lies within [-1, 1]
SimilarityWithinMinusOneOne ==
    (srch.phase = "returned" /\ ~srch.raised) =>
        \A i \in 1..Len(srch.result) :
            /\ -10000 <= srch.result[i].similarity
            /\ srch.result[i].similarity <= 10000

\* Every sub-search of the call answered
AllSucceeded ==
    \A i \in 1..Len(srch.outcomes) : srch.outcomes[i].faq.ok /\ srch.outcomes[i].variant.ok

\* 1 - cosine distance of every query embedding of the call to every stored
\* primary and alias vector
StoredSimilarities ==
    {10000 - CosineDistance(q, v) :
        q \in Range(srch.query_embeddings),
        v \in {store.faqs[id] : id \in DOMAIN store.faqs}
              \cup {store.variants[k].vec : k \in 1..Len(store.variants)}}

\* C25: when every sub-search answers (exactly), top_k >= 1, the store is
\* not empty and there is at least one query embedding, the similarity of
\* the first returned candidate is the maximum of 1 - cosine distance over
\* all query embeddings and all stored primary and alias vectors.
C25_BestIsGlobalBest ==
    (SearchReturned /\ AllSucceeded /\ srch.top_k >= 1
     /\ srch.query_embeddings # <<>> /\ DOMAIN store.faqs # {}) =>
        /\ srch.result # <<>>
        /\ srch.result[1].similarity \in StoredSimilarities
        /\ \A s \in StoredSimilarities : s <= srch.result[1].similarity

\* The global best is an alias vector found by the second query embedding,
\* for an entry other than the one nearest to the first query embedding
C25_Witness ==
    /\ SearchReturned
    /\ AllSucceeded
    /\ srch.top_k = 1
    /\ Len(srch.query_embeddings) = 2
    /\ Len(srch.result) = 1
    /\ srch.result[1].source = "variant"
    /\ srch.outcomes[1].faq.val # <<>>
    /\ srch.outcomes[1].faq.val[1].faq_id # srch.result[1].faq_id
    /\ \A i \in 1..Len(srch.all_matches) :
          srch.all_matches[i] # srch.result[1] =>
              srch.all_matches[i].similarity < srch.result[1].similarity

\* The first position of an entry's candidates in a pool
FirstIndex(pool, id) ==
    CHOOSE i \in 1..Len(pool) :
        pool[i].faq_id = id /\ \A j \in 1..(i - 1) : pool[j].faq_id # id

\* The first position in a pool of a candidate of the entry of c with the
\* similarity of c
FirstWithSimilarity(pool, c) ==
    CHOOSE i \in 1..Len(pool) :
        /\ pool[i].faq_id = c.faq_id /\ pool[i].similarity = c.similarity
        /\ \A j \in 1..(i - 1) :
              ~(pool[j].faq_id = c.faq_id /\ pool[j].similarity = c.similarity)

\* C29: of the pool's candidates of one faq_id with the (maximal) retained
\* similarity, the first of the pool is the one returned; and returned
\* candidates of different faq_ids with equal similarity are in the order in
\* which their faq_ids first appear in the pool.
C29_StableTieBreak ==
    SearchReturned =>
        /\ \A i \in 1..Len(srch.result) :
              srch.result[i] =
                  srch.all_matches[FirstWithSimilarity(srch.all_matches, srch.result[i])]
        /\ \A i, j \in 1..Len(srch.result) :
              (i < j /\ srch.result[i].similarity = srch.result[j].similarity) =>
                  FirstIndex(srch.all_matches, srch.result[i].faq_id)
                      < FirstIndex(srch.all_matches, srch.result[j].faq_id)

\* A pool with two different candidates of one faq_id at equal similarity,
\* and two returned entries at equal similarity
C29_Witness ==
    /\ SearchReturned
    /\ \E i, j \in 1..Len(srch.all_matches) :
          /\ i < j
          /\ srch.all_matches[i].faq_id = srch.all_matches[j].faq_id
          /\ srch.all_matches[i].similarity = srch.all_matches[j].similarity
          /\ srch.all_matches[i] # srch.all_matches[j]
          /\ srch.all_matches[i] \in Range(srch.result)
    /\ Len(srch.result) = 2
    /\ srch.result[1].similarity = srch.result[2].similarity

(***************************************************************************)
(* Properties of search_similar_faqs, checked under AliasSpec.             *)
(***************************************************************************)
\* The vectors stored for an entry: its primary vector and its aliases'
VectorsOf(id) ==
    {store.faqs[id]}
    \cup {store.variants[k].vec : k \in {j \in 1..Len(store.variants) :
                                            store.variants[j].faq_id = id}}

\* The similarities of the call's query embeddings to an entry's vectors
SimilaritiesOf(id) ==
    {10000 - CosineDistance(q, v) : q \in Range(srch.query_embeddings), v \in VectorsOf(id)}

\* An entry's best similarity
BestSimilarity(id) ==
    CHOOSE s \in SimilaritiesOf(id) : \A t \in SimilaritiesOf(id) : t <= s

\* C26 as claimed: when every sub-search answers (exactly), the call
\* returns the top_k entries of greatest best similarity, each with its best
\* similarity, also when aliases of one entry fill the alias sub-search's
\* rows.
C26_TopKExact ==
    (srch.phase = "returned" /\ ~srch.raised /\ AllSucceeded) =>
        /\ Len(srch.result) =
              (IF srch.top_k < Cardinality(DOMAIN store.faqs)
               THEN srch.top_k ELSE Cardinality(DOMAIN store.faqs))
        /\ \A i \in 1..Len(srch.result) :
              srch.result[i].similarity = BestSimilarity(srch.result[i].faq_id)
        /\ \A id \in DOMAIN store.faqs :
              (\A i \in 1..Len(srch.result) : srch.result[i].faq_id # id) =>
                  \A i \in 1..Len(srch.result) :
                      BestSimilarity(id) <= srch.result[i].similarity

\* What the code keeps of C26: the first returned entry is the one of
\* greatest best similarity and reports it
FirstEntryExact ==
    (srch.phase = "returned" /\ ~srch.raised /\ AllSucceeded) =>
        /\ srch.result # <<>>
        /\ srch.result[1].similarity = BestSimilarity(srch.result[1].faq_id)
        /\ \A id \in DOMAIN store.faqs : BestSimilarity(id) <= srch.result[1].similarity

\* A retrieved candidate has a similarity outside [0, 1]
SomeOutOfRange ==
    \E i \in 1..Len(matches) : matches[i].similarity < 0 \/ matches[i].similarity > 10000

\* C27: if a candidate of the retrieved list has a similarity outside
\* [0, 1], the request ends with the error response (source='error',
\* confidence 0.0, all_matches empty), also when a stored answer had been
\* selected or an answer had been synthesized; no response lists a match
\* with a similarity outside [0, 1].
C27_OutOfRangeIsError ==
    /\ (pc = "Done" /\ SomeOutOfRange) =>
        /\ Len(responses) = 1
        /\ responses[1].source = "error"
        /\ responses[1].confidence = 0
        /\ responses[1].all_matches = <<>>
        /\ responses[1].matched_faq = <<>>
    /\ \A i \in 1..Len(responses) :
        /\ \A k \in 1..Len(responses[i].all_matches) :
              /\ responses[i].all_matches[k].similarity >= 0
              /\ responses[i].all_matches[k].similarity <= 10000
        /\ \A k \in 1..Len(responses[i].matched_faq) :
              /\ responses[i].matched_faq[k].similarity >= 0
              /\ responses[i].matched_faq[k].similarity <= 10000

\* A stored answer had been selected for a best match within range, a
\* lower-ranked candidate was negative, and the error response was returned
C27_Witness ==
    /\ pc = "Done"
    /\ source = "database"
    /\ confidence >= 7500
    /\ Len(matches) = 2
    /\ matches[2].similarity < 0
    /\ Len(responses) = 1
    /\ responses[1].source = "error"

\* The same after an answer had been synthesized
C27_WitnessSynthesized ==
    /\ pc = "Done"
    /\ source = "llm"
    /\ calls.synthesizer = 1
    /\ confidence >= 0
    /\ SomeOutOfRange
    /\ Len(responses) = 1
    /\ responses[1].source = "error"

(***************************************************************************)
(* Properties of the responses' match metadata, checked under SynthSpec.   *)
(***************************************************************************)
\* C28: every response of the Retrieve path that is not the error response
\* (source 'database' or 'llm', the request not classified General) has
\* matched_faq present exactly when all_matches is non-empty, matched_faq
\* equal to all_matches[0], confidence equal to matched_faq's similarity
\* (0.0 when absent), and at most 5 entries in all_matches, with pairwise
\* distinct faq_ids.
C28_MetadataConsistent ==
    \A i \in 1..Len(responses) :
        (responses[i].source \in {"database", "llm"}
         /\ ~Contains(Lower(category), <<"g", "e", "n", "e", "r", "a", "l">>)) =>
            LET r == responses[i]
            IN  /\ (r.matched_faq # <<>>) <=> (r.all_matches # <<>>)
                /\ r.matched_faq # <<>> =>
                      /\ r.matched_faq[1] = r.all_matches[1]
                      /\ r.confidence = r.matched_faq[1].similarity
                /\ r.matched_faq = <<>> => r.confidence = 0
                /\ Len(r.all_matches) <= 5
                /\ \A j, k \in 1..Len(r.all_matches) :
                      r.all_matches[j].faq_id = r.all_matches[k].faq_id => j = k

\* A synthesized answer over a store of six entries: five matches listed,
\* the first of them as matched_faq
C28_Witness ==
    /\ pc = "Done"
    /\ Len(responses) = 1
    /\ responses[1].source = "llm"
    /\ Cardinality(DOMAIN store.faqs) = 6
    /\ Len(responses[1].all_matches) = 5
    /\ responses[1].matched_faq = <<responses[1].all_matches[1]>>
    /\ responses[1].all_matches[1].similarity > responses[1].all_matches[5].similarity
    /\ responses[1].confidence = responses[1].all_matches[1].similarity

\* A stored answer with its match metadata
C28_WitnessStored ==
    /\ pc = "Done"
    /\ Len(responses) = 1
    /\ responses[1].source = "database"
    /\ Len(responses[1].all_matches) = 5
    /\ responses[1].matched_faq = <<responses[1].all_matches[1]>>

\* A synthesized answer with no match at all
C28_WitnessNoMatch ==
    /\ pc = "Done"
    /\ Len(responses) = 1
    /\ responses[1].source = "llm"
    /\ responses[1].all_matches = <<>>
    /\ responses[1].matched_faq = <<>>
    /\ responses[1].confidence = 0

(***************************************************************************)
(* Properties of the configured threshold, checked under ConfigSpec.       *)
(***************************************************************************)
\* C24 as claimed: the Decide step compares the confidence with the value
\* of CONFIDENCE_THRESHOLD when that is set, and with 0.75 when it is not.
C24_ConfiguredThreshold ==
    (pc = "Assemble" \/ (pc \in {"Errored", "Done"} /\ source # "unset")) =>
        ((source = "database") <=>
            (matches # <<>>
             /\ matches[1].similarity >= (IF environ # <<>> THEN environ[1] ELSE 7500)))

\* What the code does: the threshold is 0.75 whatever the environment says
ThresholdIsDefault ==
    /\ confidence_threshold = 7500
    /\ (pc = "Assemble" \/ (pc \in {"Errored", "Done"} /\ source # "unset")) =>
          ((source = "database") <=> (matches # <<>> /\ matches[1].similarity >= 7500))


(***************************************************************************)
(* Properties of DatabaseManager, checked under PoolSpec.                  *)
(***************************************************************************)
\* C21: whatever the operations did and wherever they failed, the number of
\* checked-out connections never exceeds the pool's maximum, is 0 whenever
\* no operation is in progress, and is 0 while an external call (classifier,
\* variant model, embedding, synthesizer) is in flight.
C21_PoolDiscipline ==
    /\ db.used <= db.maxconn
    /\ (db.phase = "idle" => db.used = 0)
    /\ (db.external # "none" => db.used = 0)

\* An operation took a connection, failed at its commit, and has ended with
\* the connection returned
C21_Witness ==
    /\ db.phase = "idle"
    /\ db.event = "raised"
    /\ db.getconn = "taken"
    /\ db.failed_at = "commit"
    /\ db.used = 0

\* An external call is in flight after an operation that failed in its body
C21_WitnessExternal ==
    /\ db.external = "synthesizer"
    /\ db.getconn = "taken"
    /\ db.failed_at = "body"
    /\ db.used = 0

\* C30: an operation that follows an initialize_pool call with no later
\* close_pool never finds the pool closed when it asks for its connection.
C30_PoolLifecycle == db.armed => db.getconn # "closed"

\* initialize_pool called while a pool is open leaves that pool as it was
InitializeKeepsOpenPool ==
    [][(db.pool = "open" /\ db.phase = "idle" /\ db'.event = "initialize_pool")
          => /\ db'.pool = "open"
             /\ db'.minconn = db.minconn
             /\ db'.maxconn = db.maxconn
             /\ db'.used = db.used]_vars

\* A pool is open, initialize_pool was called again with other sizes
InitializeKeepsOpenPoolWitness ==
    /\ db.event = "initialize_pool"
    /\ db.finished >= 2
    /\ db.pool = "open"
    /\ db.maxconn = DefaultMaxConn


(***************************************************************************)
(* Properties of the tables, checked under StoreSpec.                      *)
(***************************************************************************)
NoOrphans == \A k \in 1..Len(store.variants) : store.variants[k].faq_id \in DOMAIN store.faqs

\* C22: whatever statements ran, every row of faq_variants references a
\* stored entry; inserting a variant whose faq_id references no entry fails
\* and leaves the tables as they were; deleting an entry deletes all of its
\* variants.
C22_NoOrphanedVariants ==
    /\ []NoOrphans
    /\ [][/\ (sql'.statement = "insert_variant" /\ sql'.faq_id \notin DOMAIN store.faqs)
                => (~sql'.ok /\ store' = store)
          /\ (sql'.statement = "delete_faq" /\ sql'.count # sql.count)
                => /\ sql'.faq_id \notin DOMAIN store'.faqs
                   /\ VariantsOf(store', sql'.faq_id) = {}
                   /\ Len(store'.variants) = Len(store.variants) - sql'.cascaded]_vars

\* An entry with a variant was deleted while another entry keeps its variant
C22_Witness ==
    /\ sql.statement = "delete_faq"
    /\ sql.cascaded >= 1
    /\ store.variants # <<>>
    /\ NoOrphans

\* A variant referencing the id of a deleted entry was rejected
C22_WitnessRejected ==
    /\ sql.statement = "insert_variant"
    /\ ~sql.ok
    /\ sql.faq_id <= faqs_id_seq
    /\ store.faqs # <<>>


(***************************************************************************)
(* Properties of two requests served together, checked under ParSpec.      *)
(***************************************************************************)
\* Each finished request has the response it gets alone with the same
\* outcomes of its external calls
ResponsesAsAlone ==
    \A i \in DOMAIN par.requests :
        par.requests[i].pc = "Done"
            => par.requests[i].response = <<Alone(par.requests[i], environ)>>

\* No request has read a service-level value that the other request wrote,
\* and the variant model ran with the temperature the request runs with
\* alone
NoSharedWrites ==
    \A i \in DOMAIN par.requests :
        /\ par.requests[i].read_from \in {0, i}
        /\ par.requests[i].invoked_at
              \in {<<>>, <<ClampTemperature(RequestTemperature(par.requests[i].req))>>}

\* The pool of a worker has a connection for every request, and its
\* checked-out connections are those of its requests inside a query
PoolServesBoth ==
    /\ \A i \in DOMAIN par.requests : ~par.requests[i].exhausted
    /\ \A w \in DOMAIN par.used :
          /\ par.used[w] = Cardinality({i \in DOMAIN par.requests :
                                          par.worker[i] = w /\ par.requests[i].holds})
          /\ par.used[w] <= LifespanMaxConn

C23_WitnessWorkers ==
    /\ par.worker[1] # par.worker[2]
    /\ par.requests[1].holds
    /\ par.requests[2].holds

====
